---- MODULE Spec2Model ----
(***************************************************************************)
(* Model of the file-storage service (Dateiverwaltungsdienst/app_file):    *)
(* the tables StorageUser, Directory, File and Share, the contacts of a    *)
(* user, the access                                                        *)
(* decision can_access of models.py and the request handlers of views.py.  *)
(* File contents are kept as their byte length, which is all the quota     *)
(* accounting reads.  Sizes are counted in an abstract unit, so the two    *)
(* limits of views.py are scaled down, keeping LIMIT_SINGLE_FILE_SIZE      *)
(* strictly below LIMIT_USER_TOTAL_SIZE and equal to the size up to which  *)
(* the framework hands a request body to a view (settings.py).             *)
(***************************************************************************)
EXTENDS Integers, Sequences, FiniteSets, TLC

\* ------------------------------------------------------------------ bounds
MaxDirId == 4
MaxFileId == 2
MaxShareId == 2
MaxBody == 3
MaxUser == 3
MaxTime == 2

Users == {1, 2}
AllUsers == 1..MaxUser
Names == {"a", "b"}
DirIds == 1..MaxDirId
FileIds == 1..MaxFileId
ShareIds == 1..MaxShareId
Bodies == 0..MaxBody
Times == 0..MaxTime

\* Python's None / SQL NULL for an id, and an absent query parameter.
None == 0
NoName == "<absent>"

\* views.py:17-18, scaled
LIMIT_SINGLE_FILE_SIZE == 2
LIMIT_USER_TOTAL_SIZE == 3

\* settings.py:156, scaled: the same value as LIMIT_SINGLE_FILE_SIZE there
DATA_UPLOAD_MAX_MEMORY_SIZE == 2

\* ------------------------------------------------------------------- state
VARIABLES
    StorageUser,   \* set of ids of the rows of table StorageUser
    Directory,     \* id -> [name, owner, parent]            (parent may be None)
    File,          \* id -> [name, owner, parent_directory, data]  (data: length)
    Share,         \* id -> [issuer, subject, target_file, target_directory, can_write]
    Contact,       \* rows <<from, to>> of the table behind StorageUser.contacts
    proc           \* the requests in flight under concurrent execution

\* the workers that handle requests concurrently, and a worker without one
Procs == {1, 2}
Idle == [pc |-> "idle"]

tables == <<StorageUser, Directory, File, Share, Contact>>
vars == <<StorageUser, Directory, File, Share, Contact, proc>>

\* The persisted entity store as one value.
DB == [users |-> StorageUser, dirs |-> Directory, files |-> File, shares |-> Share,
       contacts |-> Contact]

EmptyDB == [users |-> {}, dirs |-> <<>>, files |-> <<>>, shares |-> <<>>, contacts |-> {}]

Resp(status, db) == [status |-> status, db |-> db]

\* f with key k removed
Drop(f, ks) == [k \in (DOMAIN f) \ ks |-> f[k]]

\* The chain of a directory, by closure of the parent relation (not by the
\* recursion of can_access): S and the parents of its members, n times over.
RECURSIVE UpClosure(_, _, _)
UpClosure(dirs, S, n) ==
    IF n = 0 THEN S
    ELSE UpClosure(dirs,
                   S \cup ({dirs[x].parent : x \in S \cap DOMAIN dirs} \ {None}), n - 1)

AncestorsOrSelf(dirs, d) == UpClosure(dirs, {d}, Cardinality(DOMAIN dirs))

DescendantsOrSelf(dirs, a) == {d \in DOMAIN dirs : a \in AncestorsOrSelf(dirs, d)}

\* ------------------------------------------------------ models.py: access
StorageUser_can_access(self, user_id, is_write) ==
    ~is_write /\ user_id = self

\* Mutant: a write-capable share answers requests to write only.
DirShareGrants_write_for_writes(db, d, user_id, is_write) ==
    \E s \in DOMAIN db.shares :
        /\ db.shares[s].target_directory = d
        /\ db.shares[s].subject = user_id
        /\ db.shares[s].can_write = is_write

\* share_set.filter(subject=user_id) of a directory, and the loop over it
DirShareGrants(db, d, user_id, is_write) ==
    \E s \in DOMAIN db.shares :
        /\ db.shares[s].target_directory = d
        /\ db.shares[s].subject = user_id
        /\ (db.shares[s].can_write \/ ~is_write)

FileShareGrants(db, f, user_id, is_write) ==
    \E s \in DOMAIN db.shares :
        /\ db.shares[s].target_file = f
        /\ db.shares[s].subject = user_id
        /\ (db.shares[s].can_write \/ ~is_write)

RECURSIVE Directory_can_access(_, _, _, _)

\* Mutant: the parent directory is never asked.
Directory_can_access_no_parent(db, d, user_id, is_write) ==
    IF db.dirs[d].owner = user_id THEN TRUE
    ELSE DirShareGrants(db, d, user_id, is_write)

\* Mutant: a share on the directory itself settles the request, so a
\* read-only share hides the grant of a directory above.
Directory_can_access_share_settles(db, d, user_id, is_write) ==
    IF db.dirs[d].owner = user_id THEN TRUE
    ELSE IF DirShareGrants(db, d, user_id, FALSE)
         THEN DirShareGrants(db, d, user_id, is_write)
    ELSE IF db.dirs[d].parent # None
         THEN Directory_can_access(db, db.dirs[d].parent, user_id, is_write)
         ELSE FALSE

Directory_can_access(db, d, user_id, is_write) ==
    IF db.dirs[d].owner = user_id THEN TRUE
    ELSE IF DirShareGrants(db, d, user_id, is_write) THEN TRUE
    ELSE IF db.dirs[d].parent # None
         THEN Directory_can_access(db, db.dirs[d].parent, user_id, is_write)
         ELSE FALSE

File_can_access(db, f, user_id, is_write) ==
    IF db.files[f].owner = user_id THEN TRUE
    ELSE IF FileShareGrants(db, f, user_id, is_write) THEN TRUE
    ELSE Directory_can_access(db, db.files[f].parent_directory, user_id, is_write)

\* Mutant: the subject may write the share as well.
Share_can_access_subject_writes(db, s, user_id, is_write) ==
    db.shares[s].issuer = user_id \/ db.shares[s].subject = user_id

Share_can_access(db, s, user_id, is_write) ==
    IF db.shares[s].issuer = user_id THEN TRUE
    ELSE IF ~is_write /\ db.shares[s].subject = user_id THEN TRUE
    ELSE FALSE

\* obj.can_access(user_id, is_write), dispatched on the kind of obj
can_access(db, kind, id, user_id, is_write) ==
    CASE kind = "directory" -> Directory_can_access(db, id, user_id, is_write)
      [] kind = "file" -> File_can_access(db, id, user_id, is_write)
      [] kind = "share" -> Share_can_access(db, id, user_id, is_write)
      [] kind = "user" -> StorageUser_can_access(id, user_id, is_write)

\* ------------------------------------------------------ views.py: helpers
\* Mutant: a caller who may not read is told so.
_verify_can_access_denies(db, kind, id, user_id, is_write) ==
    IF id = None THEN "ok"
    ELSE IF ~can_access(db, kind, id, user_id, is_write) THEN "permission_denied"
    ELSE "ok"

\* Mutant: a caller who may not read is told that he may not write.
_verify_can_access_tells(db, kind, id, user_id, is_write) ==
    IF id = None THEN "ok"
    ELSE IF is_write /\ ~can_access(db, kind, id, user_id, TRUE) THEN "permission_denied"
    ELSE IF ~can_access(db, kind, id, user_id, FALSE) THEN "not_found"
    ELSE "ok"

_verify_can_access(db, kind, id, user_id, is_write) ==
    IF id = None THEN "ok"
    ELSE IF ~can_access(db, kind, id, user_id, FALSE) THEN "not_found"
    ELSE IF is_write /\ ~can_access(db, kind, id, user_id, TRUE) THEN "permission_denied"
    ELSE "ok"

\* Mutant: the owners are not compared.
_verify_same_owner_skip(owners) == "ok"

\* _verify_same_owner(entity, current_dir, target_dir), given the three owners
_verify_same_owner(owners) ==
    IF Len(owners) <= 1 THEN "ok"
    ELSE IF \E i \in 1..Len(owners) : owners[i] # owners[1] THEN "transferral_rejected"
    ELSE "ok"

ChildFiles(db, d) == {f \in DOMAIN db.files : db.files[f].parent_directory = d}
ChildDirs(db, d) == {c \in DOMAIN db.dirs : db.dirs[c].parent = d}

\* Mutant: only the files of the directory are compared, not its directories.
_verify_unique_names_str_files_only(db, name, directory) ==
    IF \E f \in ChildFiles(db, directory) : db.files[f].name = name
    THEN "duplicate_name" ELSE "ok"

\* _verify_unique_names with a str: any child of that name is a duplicate
_verify_unique_names_str(db, name, directory) ==
    IF \/ \E f \in ChildFiles(db, directory) : db.files[f].name = name
       \/ \E c \in ChildDirs(db, directory) : db.dirs[c].name = name
    THEN "duplicate_name" ELSE "ok"

\* Mutant: a directory that is absent has no children to compare with.
_verify_unique_names_obj_none_is_empty(db, kind, id, name, directory) ==
    IF directory = None THEN "ok"
    ELSE IF \/ \E f \in ChildFiles(db, directory) :
                  ~(kind = "file" /\ f = id) /\ db.files[f].name = name
            \/ \E c \in ChildDirs(db, directory) :
                  ~(kind = "directory" /\ c = id) /\ db.dirs[c].name = name
    THEN "duplicate_name" ELSE "ok"

\* _verify_unique_names with a File or Directory object whose (unsaved) name
\* is `name`: a child other than the object itself must not carry that name.
\* Model instances are equal when they are of the same model and have the
\* same primary key.  With directory = None the attribute access fails.
_verify_unique_names_obj(db, kind, id, name, directory) ==
    IF directory = None THEN "internal_error"
    ELSE IF \/ \E f \in ChildFiles(db, directory) :
                  ~(kind = "file" /\ f = id) /\ db.files[f].name = name
            \/ \E c \in ChildDirs(db, directory) :
                  ~(kind = "directory" /\ c = id) /\ db.dirs[c].name = name
    THEN "duplicate_name" ELSE "ok"

\* Mutant: only the target itself is compared, its ancestors are not visited.
WalkUpMeets_target_only(db, to_check, target_dir) ==
    target_dir # None /\ to_check = target_dir

\* the while loop of _verify_movable: walk from target_dir to the root
RECURSIVE WalkUpMeets(_, _, _)
WalkUpMeets(db, to_check, target_dir) ==
    IF target_dir = None THEN FALSE
    ELSE IF to_check = target_dir THEN TRUE
    ELSE WalkUpMeets(db, to_check, db.dirs[target_dir].parent)

\* Mutant: a directory without a parent is not told apart.
_verify_movable_root_moves(db, to_check, to_check_parent, target_dir) ==
    IF WalkUpMeets(db, to_check, target_dir) THEN "cycle_detected" ELSE "ok"

\* Mutant: the walk towards the root is left out.
_verify_movable_no_walk(db, to_check, to_check_parent, target_dir) ==
    IF to_check_parent = None THEN "unmovable_directory" ELSE "ok"

\* to_check is the id and to_check_parent the parent of the Directory object
\* the handler holds
_verify_movable(db, to_check, to_check_parent, target_dir) ==
    IF to_check_parent = None THEN "unmovable_directory"
    ELSE IF WalkUpMeets(db, to_check, target_dir) THEN "cycle_detected"
    ELSE "ok"

\* Mutant: only the files of the directory count.
_verify_empty_files_only(db, to_check) ==
    IF ChildFiles(db, to_check) # {} THEN "not_empty" ELSE "ok"

_verify_empty(db, to_check) ==
    IF ChildFiles(db, to_check) # {} \/ ChildDirs(db, to_check) # {}
    THEN "not_empty" ELSE "ok"

RECURSIVE SumLength(_, _)
SumLength(files, ids) ==
    IF ids = {} THEN 0
    ELSE LET f == CHOOSE x \in ids : TRUE
         IN files[f].data + SumLength(files, ids \ {f})

\* Mutant: the file that is overwritten is counted with the others.
QuotaSum_no_exclusion(db, user_id, excluded_file_id) ==
    SumLength(db.files, {f \in DOMAIN db.files : db.files[f].owner = user_id})

\* SELECT COALESCE(SUM(LENGTH(data)), 0) FROM File WHERE owner_id = user_id
\* [AND id <> excluded_file_id]
QuotaSum(db, user_id, excluded_file_id) ==
    SumLength(db.files, {f \in DOMAIN db.files :
                            db.files[f].owner = user_id /\ f # excluded_file_id})

\* Mutant: reaching the ceiling is refused as well.
_verify_quota_strict(db, user_id, upload_size, excluded_file_id) ==
    IF QuotaSum(db, user_id, excluded_file_id) + upload_size >= LIMIT_USER_TOTAL_SIZE
    THEN "quota_exceeded" ELSE "ok"

_verify_quota(db, user_id, upload_size, excluded_file_id) ==
    IF QuotaSum(db, user_id, excluded_file_id) + upload_size > LIMIT_USER_TOTAL_SIZE
    THEN "quota_exceeded" ELSE "ok"

\* Mutant: the user row is created without a root directory.
_verify_authenticated_no_root(db, user_id, rnd_id) ==
    IF user_id \in db.users THEN db
    ELSE [db EXCEPT !.users = @ \cup {user_id}]

\* The provisioning part of _verify_authenticated for a request that carries
\* a valid token of user_id: the user row and its root directory are created
\* in one transaction when the user is not known yet.  rnd_id is the id that
\* Directory.save draws for the root.
_verify_authenticated(db, user_id, rnd_id) ==
    IF user_id \in db.users THEN db
    ELSE [db EXCEPT !.users = @ \cup {user_id},
                    !.dirs = @ @@ (rnd_id :> [name |-> "root", owner |-> user_id,
                                              parent |-> None])]

\* --------------------------------------------------- views.py: FileView
\* request.body: the framework reads the body into memory when a view first
\* asks for it, and raises RequestDataTooBig instead when the request is
\* longer than DATA_UPLOAD_MAX_MEMORY_SIZE.  AbstractView.handle answers an
\* exception that is none of its own with internal_error.
RequestDataTooBig(body) == body > DATA_UPLOAD_MAX_MEMORY_SIZE

FileView_handle_get(db0, user_id, file_id, rnd_root) ==
    LET db == _verify_authenticated(db0, user_id, rnd_root) IN
    IF file_id \notin DOMAIN db.files THEN Resp("not_found", db)
    ELSE Resp(_verify_can_access(db, "file", file_id, user_id, FALSE), db)

\* _handle_post up to the transaction: the parameters, the parent directory,
\* the access to it, the name and the per-file cap
FilePost_checks(db, user_id, file_name, parent_directory_id, body) ==
    IF file_name = NoName \/ parent_directory_id = None THEN "malformed_request"
    ELSE IF parent_directory_id \notin DOMAIN db.dirs THEN "not_found"
    ELSE IF _verify_can_access(db, "directory", parent_directory_id, user_id, TRUE) # "ok"
         THEN _verify_can_access(db, "directory", parent_directory_id, user_id, TRUE)
    ELSE IF _verify_unique_names_str(db, file_name, parent_directory_id) # "ok"
         THEN "duplicate_name"
    ELSE IF RequestDataTooBig(body) THEN "internal_error"
    ELSE IF body > LIMIT_SINGLE_FILE_SIZE THEN "quota_exceeded"
    ELSE "ok"

\* File.objects.create(...): the row under the id that save() drew
File_create(db, rnd_id, file_name, owner, parent_directory_id, body) ==
    [db EXCEPT !.files = @ @@ (rnd_id :>
        [name |-> file_name, owner |-> owner,
         parent_directory |-> parent_directory_id, data |-> body])]

FileView_handle_post(db0, user_id, file_name, parent_directory_id, body, rnd_root, rnd_id) ==
    LET db == _verify_authenticated(db0, user_id, rnd_root)
        pre == FilePost_checks(db, user_id, file_name, parent_directory_id, body)
    IN
    IF pre # "ok" THEN Resp(pre, db)
    ELSE IF _verify_quota(db, user_id, body, None) # "ok" THEN Resp("quota_exceeded", db)
    ELSE Resp("ok", File_create(db, rnd_id, file_name,
                                db.dirs[parent_directory_id].owner,
                                parent_directory_id, body))

FileView_handle_put(db0, user_id, file_id, file_name, parent_directory_id, write_body, body, rnd_root) ==
    LET db == _verify_authenticated(db0, user_id, rnd_root) IN
    IF ~write_body /\ RequestDataTooBig(body) THEN Resp("internal_error", db)
    ELSE IF ~write_body /\ body > 0 THEN Resp("malformed_request", db)
    ELSE IF file_id \notin DOMAIN db.files THEN Resp("not_found", db)
    ELSE LET acc == _verify_can_access(db, "file", file_id, user_id, TRUE) IN
    IF acc # "ok" THEN Resp(acc, db)
    ELSE
    LET file_obj == db.files[file_id]
        meta == file_name # NoName \/ parent_directory_id # None
        move == meta /\ parent_directory_id # None
        current_dir == file_obj.parent_directory
        target_dir == IF move THEN parent_directory_id ELSE current_dir
        new_name == IF file_name # NoName THEN file_name ELSE file_obj.name
        acc_cur == _verify_can_access(db, "directory", current_dir, user_id, TRUE)
    IN
    IF meta /\ acc_cur # "ok" THEN Resp(acc_cur, db)
    ELSE IF move /\ target_dir \notin DOMAIN db.dirs THEN Resp("not_found", db)
    ELSE IF move /\ _verify_can_access(db, "directory", target_dir, user_id, TRUE) # "ok"
         THEN Resp(_verify_can_access(db, "directory", target_dir, user_id, TRUE), db)
    ELSE IF move /\ _verify_same_owner(<<file_obj.owner, db.dirs[current_dir].owner,
                                         db.dirs[target_dir].owner>>) # "ok"
         THEN Resp("transferral_rejected", db)
    ELSE IF meta /\ _verify_unique_names_obj(db, "file", file_id, new_name, target_dir) # "ok"
         THEN Resp(_verify_unique_names_obj(db, "file", file_id, new_name, target_dir), db)
    ELSE IF write_body /\ RequestDataTooBig(body) THEN Resp("internal_error", db)
    ELSE IF write_body /\ _verify_quota(db, user_id, body, file_id) # "ok"
         THEN Resp("quota_exceeded", db)
    ELSE Resp("ok", [db EXCEPT !.files[file_id] =
                        [name |-> new_name,
                         owner |-> file_obj.owner,
                         parent_directory |-> target_dir,
                         data |-> IF write_body THEN body ELSE file_obj.data]])

\* file.delete(): the shares on the file go with it (on_delete=CASCADE)
DeleteFiles(db, fs) ==
    [db EXCEPT !.files = Drop(@, fs),
               !.shares = Drop(@, {s \in DOMAIN @ : @[s].target_file \in fs})]

\* directory.delete() of a directory without children
DeleteDirectory(db, d) ==
    [db EXCEPT !.dirs = Drop(@, {d}),
               !.shares = Drop(@, {s \in DOMAIN @ : @[s].target_directory = d})]

FileView_handle_delete(db0, user_id, file_id, rnd_root) ==
    LET db == _verify_authenticated(db0, user_id, rnd_root) IN
    IF file_id \notin DOMAIN db.files THEN Resp("not_found", db)
    ELSE LET acc == _verify_can_access(db, "file", file_id, user_id, TRUE)
             acc_par == _verify_can_access(db, "directory",
                            db.files[file_id].parent_directory, user_id, TRUE) IN
    IF acc # "ok" THEN Resp(acc, db)
    ELSE IF acc_par # "ok" THEN Resp(acc_par, db)
    ELSE Resp("ok", DeleteFiles(db, {file_id}))

\* ---------------------------------------------- views.py: DirectoryView
DirectoryView_handle_get(db0, user_id, directory_id, rnd_root) ==
    LET db == _verify_authenticated(db0, user_id, rnd_root) IN
    IF directory_id \notin DOMAIN db.dirs THEN Resp("not_found", db)
    ELSE Resp(_verify_can_access(db, "directory", directory_id, user_id, FALSE), db)

\* _handle_post up to the creation
DirectoryPost_checks(db, user_id, directory_name, parent_directory_id) ==
    IF directory_name = NoName \/ parent_directory_id = None THEN "malformed_request"
    ELSE IF parent_directory_id \notin DOMAIN db.dirs THEN "not_found"
    ELSE IF _verify_can_access(db, "directory", parent_directory_id, user_id, TRUE) # "ok"
         THEN _verify_can_access(db, "directory", parent_directory_id, user_id, TRUE)
    ELSE _verify_unique_names_str(db, directory_name, parent_directory_id)

\* Directory.objects.create(...): the row under the id that save() drew
Directory_create(db, rnd_id, directory_name, owner, parent_directory_id) ==
    [db EXCEPT !.dirs = @ @@ (rnd_id :>
        [name |-> directory_name, owner |-> owner, parent |-> parent_directory_id])]

DirectoryView_handle_post(db0, user_id, directory_name, parent_directory_id, rnd_root, rnd_id) ==
    LET db == _verify_authenticated(db0, user_id, rnd_root)
        pre == DirectoryPost_checks(db, user_id, directory_name, parent_directory_id)
    IN
    IF pre # "ok" THEN Resp(pre, db)
    ELSE Resp("ok", Directory_create(db, rnd_id, directory_name,
                                     db.dirs[parent_directory_id].owner,
                                     parent_directory_id))

\* _handle_put before the transaction: the Directory object and the access to it
DirectoryPut_get(db, user_id, directory_id) ==
    IF directory_id \notin DOMAIN db.dirs THEN "not_found"
    ELSE _verify_can_access(db, "directory", directory_id, user_id, TRUE)

\* The body of the transaction of _handle_put up to save(): directory is the
\* Directory object the handler holds.  Yields the status and the object as
\* it is saved.  directory.parent is loaded from the store when it is used.
DirectoryPut_validate(db, user_id, directory_id, directory, directory_name, parent_directory_id) ==
    LET meta == directory_name # NoName \/ parent_directory_id # None
        move == meta /\ parent_directory_id # None
        current_dir == directory.parent
        target_dir == IF move THEN parent_directory_id ELSE current_dir
        new_name == IF directory_name # NoName THEN directory_name ELSE directory.name
        fail(st) == [status |-> st, obj |-> directory]
    IN
    IF ~meta THEN [status |-> "ok", obj |-> directory]
    ELSE IF current_dir # None /\ current_dir \notin DOMAIN db.dirs THEN fail("not_found")
    ELSE IF _verify_can_access(db, "directory", current_dir, user_id, TRUE) # "ok"
         THEN fail(_verify_can_access(db, "directory", current_dir, user_id, TRUE))
    ELSE IF move /\ target_dir \notin DOMAIN db.dirs THEN fail("not_found")
    ELSE IF move /\ _verify_can_access(db, "directory", target_dir, user_id, TRUE) # "ok"
         THEN fail(_verify_can_access(db, "directory", target_dir, user_id, TRUE))
    ELSE IF move /\ _verify_movable(db, directory_id, current_dir, target_dir) # "ok"
         THEN fail(_verify_movable(db, directory_id, current_dir, target_dir))
    ELSE IF move /\ _verify_same_owner(<<directory.owner, db.dirs[current_dir].owner,
                                         db.dirs[target_dir].owner>>) # "ok"
         THEN fail("transferral_rejected")
    ELSE IF _verify_unique_names_obj(db, "directory", directory_id, new_name,
                                     target_dir) # "ok"
         THEN fail(_verify_unique_names_obj(db, "directory", directory_id, new_name,
                                            target_dir))
    ELSE [status |-> "ok",
          obj |-> [name |-> new_name, owner |-> directory.owner, parent |-> target_dir]]

\* directory.save() with the id set: all the fields of the object are written
\* to the row of that id (UPDATE, or INSERT when no row has the id)
Directory_save(db, directory_id, directory) ==
    [db EXCEPT !.dirs = (directory_id :> directory) @@ @]

\* Mutant: the row is written as soon as the object is changed, before the
\* names of the target directory are compared.
DirectoryView_handle_put_saves_early(db0, user_id, directory_id, directory_name, parent_directory_id, rnd_root) ==
    LET db == _verify_authenticated(db0, user_id, rnd_root)
        pre == DirectoryPut_get(db, user_id, directory_id)
    IN
    IF pre # "ok" THEN Resp(pre, db)
    ELSE LET directory == db.dirs[directory_id]
             v == DirectoryPut_validate(db, user_id, directory_id, directory,
                                        directory_name, parent_directory_id)
             early == [name |-> IF directory_name # NoName THEN directory_name
                                ELSE directory.name,
                       owner |-> directory.owner,
                       parent |-> IF parent_directory_id # None THEN parent_directory_id
                                  ELSE directory.parent]
         IN IF v.status = "duplicate_name"
            THEN Resp(v.status, Directory_save(db, directory_id, early))
            ELSE IF v.status # "ok" THEN Resp(v.status, db)
            ELSE Resp("ok", Directory_save(db, directory_id, v.obj))

DirectoryView_handle_put(db0, user_id, directory_id, directory_name, parent_directory_id, rnd_root) ==
    LET db == _verify_authenticated(db0, user_id, rnd_root)
        pre == DirectoryPut_get(db, user_id, directory_id)
    IN
    IF pre # "ok" THEN Resp(pre, db)
    ELSE LET v == DirectoryPut_validate(db, user_id, directory_id, db.dirs[directory_id],
                                        directory_name, parent_directory_id)
         IN IF v.status # "ok" THEN Resp(v.status, db)
            ELSE Resp("ok", Directory_save(db, directory_id, v.obj))

\* a sequence holding the elements of a set (a queryset's order is not fixed)
RECURSIVE SetToSeq(_)
SetToSeq(S) ==
    IF S = {} THEN <<>>
    ELSE LET x == CHOOSE y \in S : TRUE IN <<x>> \o SetToSeq(S \ {x})

\* Mutant: the directory goes with its files, the directories in it stay.
CascadeLoop_top_only(db, to_delete_list) ==
    IF Len(to_delete_list) = 0 THEN db
    ELSE LET to_delete == to_delete_list[Len(to_delete_list)]
         IN DeleteDirectory(DeleteFiles(db, ChildFiles(db, to_delete)), to_delete)

\* the work-list loop of the cascading delete
RECURSIVE CascadeLoop(_, _)
CascadeLoop(db, to_delete_list) ==
    IF Len(to_delete_list) = 0 THEN db
    ELSE LET to_delete == to_delete_list[Len(to_delete_list)]
             popped == SubSeq(to_delete_list, 1, Len(to_delete_list) - 1)
             children == ChildDirs(db, to_delete)
         IN IF children = {}
            THEN CascadeLoop(DeleteDirectory(DeleteFiles(db, ChildFiles(db, to_delete)),
                                             to_delete), popped)
            ELSE CascadeLoop(db, popped \o <<to_delete>> \o SetToSeq(children))

DirectoryView_handle_delete(db0, user_id, directory_id, cascade, rnd_root) ==
    LET db == _verify_authenticated(db0, user_id, rnd_root) IN
    IF directory_id \notin DOMAIN db.dirs THEN Resp("not_found", db)
    ELSE LET acc == _verify_can_access(db, "directory", directory_id, user_id, TRUE)
             parent_directory == db.dirs[directory_id].parent
             acc_par == _verify_can_access(db, "directory", parent_directory, user_id, TRUE)
         IN
    IF acc # "ok" THEN Resp(acc, db)
    ELSE IF parent_directory = None THEN Resp("unmovable_directory", db)
    ELSE IF acc_par # "ok" THEN Resp(acc_par, db)
    ELSE IF cascade THEN Resp("ok", CascadeLoop(db, <<directory_id>>))
    ELSE IF _verify_empty(db, directory_id) # "ok" THEN Resp("not_empty", db)
    ELSE Resp("ok", DeleteDirectory(db, directory_id))

\* -------------------------------------------------- views.py: ShareView
TargetExists(db, target_type, target_id) ==
    IF target_type = "directory" THEN target_id \in DOMAIN db.dirs
    ELSE target_id \in DOMAIN db.files

TargetOwner(db, target_type, target_id) ==
    IF target_type = "directory" THEN db.dirs[target_id].owner
    ELSE db.files[target_id].owner

\* Mutant: the owner of the target is not asked for.
Share_verify_owner_skip(db, user_id, target_type, target_id) == "ok"

\* if target.owner.id != user_id: raise _ErrorAccessDenied()
Share_verify_owner(db, user_id, target_type, target_id) ==
    IF TargetOwner(db, target_type, target_id) # user_id
    THEN "permission_denied" ELSE "ok"

\* Mutant: a share may name its issuer as the subject.
Share_verify_subject_skip(user_id, subject_id) == "ok"

\* if user_id == subject_id: raise _ErrorInvalidShareSubject()
Share_verify_subject(user_id, subject_id) ==
    IF user_id = subject_id THEN "invalid_subject" ELSE "ok"

ShareView_handle_get(db0, user_id, share_id, rnd_root) ==
    LET db == _verify_authenticated(db0, user_id, rnd_root) IN
    IF share_id \notin DOMAIN db.shares THEN Resp("not_found", db)
    ELSE Resp(_verify_can_access(db, "share", share_id, user_id, FALSE), db)

ShareView_handle_post(db0, user_id, subject_id, target_type, target_id, can_write, rnd_root, rnd_id) ==
    LET db == _verify_authenticated(db0, user_id, rnd_root) IN
    IF subject_id \notin db.users THEN Resp("not_found", db)
    ELSE IF ~TargetExists(db, target_type, target_id) THEN Resp("not_found", db)
    ELSE LET acc == _verify_can_access(db, target_type, target_id, user_id, TRUE) IN
    IF acc # "ok" THEN Resp(acc, db)
    ELSE IF Share_verify_owner(db, user_id, target_type, target_id) # "ok"
         THEN Resp("permission_denied", db)
    ELSE IF Share_verify_subject(user_id, subject_id) # "ok"
         THEN Resp("invalid_subject", db)
    ELSE Resp("ok", [db EXCEPT !.shares = @ @@ (rnd_id :>
                        [issuer |-> user_id,
                         subject |-> subject_id,
                         target_file |-> IF target_type = "file" THEN target_id ELSE None,
                         target_directory |-> IF target_type = "directory"
                                              THEN target_id ELSE None,
                         can_write |-> can_write])])

ShareView_handle_delete(db0, user_id, share_id, rnd_root) ==
    LET db == _verify_authenticated(db0, user_id, rnd_root) IN
    IF share_id \notin DOMAIN db.shares THEN Resp("not_found", db)
    ELSE LET acc == _verify_can_access(db, "share", share_id, user_id, TRUE) IN
    IF acc # "ok" THEN Resp(acc, db)
    ELSE Resp("ok", [db EXCEPT !.shares = Drop(@, {share_id})])

\* ------------------------------------------- views.py: the bearer token
ACCESS_TOKEN_TYPE == "access"

\* A request without an Authorization header, with one that is not
\* "Bearer <token>", with a token that is not signed by the key of the
\* settings, or with a token that lacks one of the five claims or has one of
\* another type.
BadToken == [token_type |-> "<none>"]

\* The tokens that carry the five claims (the display name is not modelled).
Tokens ==
    {BadToken} \cup [user_id : AllUsers, iat : Times, exp : Times,
                     token_type : {ACCESS_TOKEN_TYPE, "refresh"}]

\* jwt.decode(token, key, algorithm): besides the signature the library
\* validates the registered claims exp and iat against its own clock.  What it
\* does in the last second of a token (exp = now) and with a token of the
\* future (iat > now) depends on the release of the library that is
\* installed: releases from 2.6.0 on raise ExpiredSignatureError when
\* exp <= now and ImmatureSignatureError when iat > now, the releases before
\* raise only when exp < now.  The set of the results that a build can give.
jwt_decode(token, now) ==
    IF token = BadToken THEN {"raise"}
    ELSE IF token.exp < now THEN {"raise"}
    ELSE IF token.exp = now \/ token.iat > now THEN {"ok", "raise"}
    ELSE {"ok"}

\* Mutant: the user id of the token is not compared with that of the request.
_verify_token_any_user(token, user_id, now, decoded) ==
    IF decoded # "ok" THEN "unauthorized"
    ELSE IF now > token.exp THEN "unauthorized"
    ELSE IF now < token.iat THEN "unauthorized"
    ELSE IF ACCESS_TOKEN_TYPE # token.token_type THEN "unauthorized"
    ELSE "ok"

\* _verify_authenticated up to the provisioning: decoded is what jwt.decode
\* did, now is int(time.time()).
_verify_token(token, user_id, now, decoded) ==
    IF decoded # "ok" THEN "unauthorized"
    ELSE IF token.user_id # user_id THEN "unauthorized"
    ELSE IF now > token.exp THEN "unauthorized"
    ELSE IF now < token.iat THEN "unauthorized"
    ELSE IF ACCESS_TOKEN_TYPE # token.token_type THEN "unauthorized"
    ELSE "ok"

\* A handler under a request with the given token: _ErrorUnauthorized is
\* raised before anything is read or written, else the handler goes on to r,
\* its result under a valid token.
WithToken(token, user_id, now, decoded, db0, r) ==
    IF _verify_token(token, user_id, now, decoded) # "ok"
    THEN Resp("unauthorized", db0) ELSE r

\* ------------------------------------------------ views.py: UserInfoView
UserInfoView_handle_get(db0, token, now, decoded, user_id, rnd_root) ==
    WithToken(token, user_id, now, decoded, db0,
        LET db == _verify_authenticated(db0, user_id, rnd_root) IN
        Resp(IF StorageUser_can_access(user_id, user_id, FALSE)
             THEN "ok" ELSE "not_found", db))

\* ------------------------------------------------- views.py: ContactView
\* user.contacts.all(): StorageUser.contacts is a ManyToManyField("StorageUser"),
\* which is symmetrical only when the model is named "self"; a row <<a, b>>
\* of its table makes b a contact of a and says nothing about the contacts
\* of b.
contacts_all(db, user_id) == {c[2] : c \in {r \in db.contacts : r[1] = user_id}}

\* user.contacts.add(contact)
contacts_add(db, user_id, contact_id) ==
    [db EXCEPT !.contacts = @ \cup {<<user_id, contact_id>>}]

\* user.contacts.remove(contact_id)
contacts_remove(db, user_id, contact_id) ==
    [db EXCEPT !.contacts = @ \ {<<user_id, contact_id>>}]

ContactView_handle_get(db0, user_id, contact_id, rnd_root) ==
    LET db == _verify_authenticated(db0, user_id, rnd_root) IN
    IF contact_id \notin db.users THEN Resp("not_found", db)
    ELSE Resp("ok", db)

ContactView_handle_post(db0, user_id, contact_id, rnd_root) ==
    LET db == _verify_authenticated(db0, user_id, rnd_root) IN
    IF contact_id = user_id THEN Resp("invalid_contact", db)
    ELSE IF contact_id \notin db.users THEN Resp("not_found", db)
    ELSE IF contact_id \notin contacts_all(db, user_id)
         THEN Resp("ok", contacts_add(db, user_id, contact_id))
    ELSE Resp("ok", db)

ContactView_handle_delete(db0, user_id, contact_id, rnd_root) ==
    LET db == _verify_authenticated(db0, user_id, rnd_root) IN
    IF contact_id \notin contacts_all(db, user_id) THEN Resp("not_found", db)
    ELSE Resp("ok", contacts_remove(db, user_id, contact_id))

\* ------------------------------------------------ models.py: _delete_user
\* The rows that user.delete() collects through the foreign keys with
\* on_delete=CASCADE: the directories and files the user owns, the shares he
\* issued or received and those on his files and directories, and the rows
\* of his contacts on either side.
Cascaded(db, user_id) ==
    LET dirs == {d \in DOMAIN db.dirs : db.dirs[d].owner = user_id}
        files == {f \in DOMAIN db.files : db.files[f].owner = user_id}
    IN [dirs |-> dirs, files |-> files,
        shares |-> {s \in DOMAIN db.shares :
                       \/ db.shares[s].issuer = user_id
                       \/ db.shares[s].subject = user_id
                       \/ db.shares[s].target_file \in files
                       \/ db.shares[s].target_directory \in dirs},
        contacts |-> {c \in db.contacts : c[1] = user_id \/ c[2] = user_id}]

\* on_delete=RESTRICT of Directory.parent and File.parent_directory: a row
\* below a collected directory that is not collected itself
Restricted(db, user_id) ==
    LET c == Cascaded(db, user_id) IN
    \/ \E d \in (DOMAIN db.dirs) \ c.dirs : db.dirs[d].parent \in c.dirs
    \/ \E f \in (DOMAIN db.files) \ c.files : db.files[f].parent_directory \in c.dirs

\* Mutant: the shares that the user received stay.
_delete_user_keeps_received(db, user_id) ==
    IF user_id \notin db.users \/ Restricted(db, user_id) THEN db
    ELSE LET c == Cascaded(db, user_id) IN
         [users |-> db.users \ {user_id},
          dirs |-> Drop(db.dirs, c.dirs),
          files |-> Drop(db.files, c.files),
          shares |-> Drop(db.shares, {s \in c.shares : db.shares[s].subject # user_id}),
          contacts |-> db.contacts \ c.contacts]

\* The callback for a deleted account.  Nothing is deleted when the user is
\* not known, and nothing when user.delete() raises RestrictedError.
_delete_user(db, user_id) ==
    IF user_id \notin db.users \/ Restricted(db, user_id) THEN db
    ELSE LET c == Cascaded(db, user_id) IN
         [users |-> db.users \ {user_id},
          dirs |-> Drop(db.dirs, c.dirs),
          files |-> Drop(db.files, c.files),
          shares |-> Drop(db.shares, c.shares),
          contacts |-> db.contacts \ c.contacts]

\* ------------------------------------------------------------ transitions
\* Ids are drawn at random (models.py _create_random_id) until one is found
\* that no row of the table has.  Ids are only ever compared for equality, so
\* the handlers are invariant under renaming ids; the model keeps one
\* representative of each renaming class and draws the least unused id of
\* the pool.  None stands for an exhausted pool.
Least(S) == CHOOSE x \in S : \A y \in S : x <= y

_create_random_id(pool, used) ==
    IF pool \ used = {} THEN {None} ELSE {Least(pool \ used)}

\* the rows of db are committed
Store(db) ==
    /\ StorageUser' = db.users
    /\ Directory' = db.dirs
    /\ File' = db.files
    /\ Share' = db.shares
    /\ Contact' = db.contacts

\* A request served without interleaving: the store after it, and its
\* response.  A creation the pools of the model have no id for is cut off.
Serve(user_id, rnd_root, rnd_id, r) ==
    /\ user_id \notin StorageUser => rnd_root # None
    /\ r.status = "ok" => rnd_id # None
    /\ StorageUser' = r.db.users
    /\ Directory' = r.db.dirs
    /\ File' = r.db.files
    /\ Share' = r.db.shares
    /\ Contact' = r.db.contacts
    /\ UNCHANGED proc

\* the id Directory.save draws for the root of a user seen for the first time
RootIds(sc, user_id) ==
    IF user_id \in StorageUser THEN {None}
    ELSE _create_random_id(sc.dir_ids, DOMAIN Directory)

\* The ids a request can name: those of the rows of the table, and one id
\* that no row has (every such id is answered alike).
Named(pool, used) == used \cup (_create_random_id(pool, used) \ {None})

\* the (write_body, len(body)) pairs of a PUT on a file
PutBodies(bodies) == {<<FALSE, 0>>, <<FALSE, 1>>} \cup {<<TRUE, b>> : b \in bodies}

\* The requests.  sc gives the sets the inputs of a scenario are drawn from:
\* users (the callers), names, bodies (the lengths of the request bodies),
\* targets and can_write (of the shares requested), and the id pools.
FilePost(sc) ==
    \E user_id \in sc.users, file_name \in sc.names \cup {NoName},
       parent \in Named(DirIds, DOMAIN Directory) \cup {None}, body \in sc.bodies :
    \E rnd_root \in RootIds(sc, user_id),
       rnd_id \in _create_random_id(sc.file_ids, DOMAIN File) :
        Serve(user_id, rnd_root, rnd_id,
              FileView_handle_post(DB, user_id, file_name, parent, body, rnd_root, rnd_id))

FileGet(sc) ==
    \E user_id \in sc.users, file_id \in Named(FileIds, DOMAIN File) :
    \E rnd_root \in RootIds(sc, user_id) :
        Serve(user_id, rnd_root, file_id,
              FileView_handle_get(DB, user_id, file_id, rnd_root))

FilePut(sc) ==
    \E user_id \in sc.users, file_id \in Named(FileIds, DOMAIN File),
       file_name \in sc.names \cup {NoName},
       parent \in Named(DirIds, DOMAIN Directory) \cup {None},
       wb \in PutBodies(sc.bodies) :
    \E rnd_root \in RootIds(sc, user_id) :
        Serve(user_id, rnd_root, file_id,
              FileView_handle_put(DB, user_id, file_id, file_name, parent,
                                  wb[1], wb[2], rnd_root))

FileDelete(sc) ==
    \E user_id \in sc.users, file_id \in Named(FileIds, DOMAIN File) :
    \E rnd_root \in RootIds(sc, user_id) :
        Serve(user_id, rnd_root, file_id,
              FileView_handle_delete(DB, user_id, file_id, rnd_root))

DirectoryPost(sc) ==
    \E user_id \in sc.users, directory_name \in sc.names \cup {NoName},
       parent \in Named(DirIds, DOMAIN Directory) \cup {None} :
    \E rnd_root \in RootIds(sc, user_id) :
    \E rnd_id \in _create_random_id(sc.dir_ids, DOMAIN Directory \cup {rnd_root}) :
        Serve(user_id, rnd_root, rnd_id,
              DirectoryView_handle_post(DB, user_id, directory_name, parent,
                                        rnd_root, rnd_id))

DirectoryGet(sc) ==
    \E user_id \in sc.users, directory_id \in Named(DirIds, DOMAIN Directory) :
    \E rnd_root \in RootIds(sc, user_id) :
        Serve(user_id, rnd_root, directory_id,
              DirectoryView_handle_get(DB, user_id, directory_id, rnd_root))

DirectoryPut(sc) ==
    \E user_id \in sc.users, directory_id \in Named(DirIds, DOMAIN Directory),
       directory_name \in sc.names \cup {NoName},
       parent \in Named(DirIds, DOMAIN Directory) \cup {None} :
    \E rnd_root \in RootIds(sc, user_id) :
        Serve(user_id, rnd_root, directory_id,
              DirectoryView_handle_put(DB, user_id, directory_id, directory_name,
                                       parent, rnd_root))

DirectoryDelete(sc) ==
    \E user_id \in sc.users, directory_id \in Named(DirIds, DOMAIN Directory),
       cascade \in BOOLEAN :
    \E rnd_root \in RootIds(sc, user_id) :
        Serve(user_id, rnd_root, directory_id,
              DirectoryView_handle_delete(DB, user_id, directory_id, cascade, rnd_root))

SharePost(sc) ==
    \E user_id \in sc.users, subject_id \in sc.users, target_type \in sc.targets,
       can_write \in sc.can_write :
    \E target_id \in (IF target_type = "file" THEN Named(FileIds, DOMAIN File)
                      ELSE Named(DirIds, DOMAIN Directory)) :
    \E rnd_root \in RootIds(sc, user_id),
       rnd_id \in _create_random_id(sc.share_ids, DOMAIN Share) :
        Serve(user_id, rnd_root, rnd_id,
              ShareView_handle_post(DB, user_id, subject_id, target_type, target_id,
                                    can_write, rnd_root, rnd_id))

ShareGet(sc) ==
    \E user_id \in sc.users, share_id \in Named(ShareIds, DOMAIN Share) :
    \E rnd_root \in RootIds(sc, user_id) :
        Serve(user_id, rnd_root, share_id,
              ShareView_handle_get(DB, user_id, share_id, rnd_root))

ShareDelete(sc) ==
    \E user_id \in sc.users, share_id \in Named(ShareIds, DOMAIN Share) :
    \E rnd_root \in RootIds(sc, user_id) :
        Serve(user_id, rnd_root, share_id,
              ShareView_handle_delete(DB, user_id, share_id, rnd_root))

\* GET /userinfo/<user_id> under any token, at any time
UserInfoGet(sc) ==
    \E user_id \in sc.users, token \in Tokens, now \in Times :
    \E decoded \in jwt_decode(token, now), rnd_root \in RootIds(sc, user_id) :
        LET r == UserInfoView_handle_get(DB, token, now, decoded, user_id, rnd_root)
        IN /\ (r.status = "ok" /\ user_id \notin StorageUser) => rnd_root # None
           /\ Store(r.db)
           /\ UNCHANGED proc

ContactGet(sc) ==
    \E user_id \in sc.users, contact_id \in AllUsers :
    \E rnd_root \in RootIds(sc, user_id) :
        Serve(user_id, rnd_root, contact_id,
              ContactView_handle_get(DB, user_id, contact_id, rnd_root))

ContactPost(sc) ==
    \E user_id \in sc.users, contact_id \in AllUsers :
    \E rnd_root \in RootIds(sc, user_id) :
        Serve(user_id, rnd_root, contact_id,
              ContactView_handle_post(DB, user_id, contact_id, rnd_root))

ContactDelete(sc) ==
    \E user_id \in sc.users, contact_id \in AllUsers :
    \E rnd_root \in RootIds(sc, user_id) :
        Serve(user_id, rnd_root, contact_id,
              ContactView_handle_delete(DB, user_id, contact_id, rnd_root))

\* the message that an account was deleted arrives
DeleteUser(sc) ==
    \E user_id \in AllUsers :
        /\ Store(_delete_user(DB, user_id))
        /\ UNCHANGED proc

Init ==
    /\ StorageUser = {}
    /\ Directory = <<>>
    /\ File = <<>>
    /\ Share = <<>>
    /\ Contact = {}
    /\ proc = [p \in Procs |-> Idle]

\* ------------------------------------------------- concurrent execution
\* Requests are handled concurrently, one handler invocation each, on a
\* database that runs every statement on the rows committed at that moment
\* (PostgreSQL's default isolation) and takes no locks for a read.  proc[p] is
\* the request worker p is handling: where it is in the handler (pc) and the
\* objects and values the handler holds.  The reads a handler issues one after
\* the other without a write between them are taken at one moment.

\* FileView._handle_post up to `with transaction.atomic()`
FilePost_begin(p, sc) ==
    \E user_id \in sc.users, file_name \in sc.names,
       parent \in Named(DirIds, DOMAIN Directory), body \in sc.bodies :
    \E rnd_root \in RootIds(sc, user_id) :
        LET db == _verify_authenticated(DB, user_id, rnd_root)
            pre == FilePost_checks(db, user_id, file_name, parent, body)
        IN /\ proc[p].pc = "idle"
           /\ user_id \notin StorageUser => rnd_root # None
           /\ Store(db)
           /\ proc' = [proc EXCEPT ![p] =
                 IF pre = "ok"
                 THEN [pc |-> "quota", op |-> "file_post", user_id |-> user_id,
                       name |-> file_name, parent |-> parent,
                       owner |-> db.dirs[parent].owner, body |-> body]
                 ELSE [pc |-> "done", op |-> "file_post", status |-> pre]]

\* _verify_quota inside the transaction: the sum over the committed rows
FilePost_quota(p) ==
    LET req == proc[p] IN
    /\ req.pc = "quota"
    /\ proc' = [proc EXCEPT ![p] =
          IF _verify_quota(DB, req.user_id, req.body, None) = "ok"
          THEN [req EXCEPT !.pc = "create"] @@ [seen |-> QuotaSum(DB, req.user_id, None)]
          ELSE [pc |-> "done", op |-> "file_post", status |-> "quota_exceeded"]]
    /\ UNCHANGED tables

\* File.objects.create and the commit of the transaction
FilePost_create(p, sc) ==
    LET req == proc[p] IN
    /\ req.pc = "create"
    /\ \E rnd_id \in _create_random_id(sc.file_ids, DOMAIN File) :
          /\ rnd_id # None
          /\ IF req.parent \in DOMAIN Directory
             THEN /\ Store(File_create(DB, rnd_id, req.name, req.owner, req.parent,
                                       req.body))
                  /\ proc' = [proc EXCEPT ![p] =
                        [pc |-> "done", op |-> "file_post", status |-> "ok",
                         user_id |-> req.user_id, body |-> req.body, seen |-> req.seen]]
             ELSE /\ UNCHANGED tables
                  /\ proc' = [proc EXCEPT ![p] =
                        [pc |-> "done", op |-> "file_post", status |-> "internal_error"]]

\* DirectoryView._handle_post up to Directory.objects.create
DirectoryPost_begin(p, sc) ==
    \E user_id \in sc.users, directory_name \in sc.names,
       parent \in Named(DirIds, DOMAIN Directory) :
    \E rnd_root \in RootIds(sc, user_id) :
        LET db == _verify_authenticated(DB, user_id, rnd_root)
            pre == DirectoryPost_checks(db, user_id, directory_name, parent)
        IN /\ proc[p].pc = "idle"
           /\ user_id \notin StorageUser => rnd_root # None
           /\ Store(db)
           /\ proc' = [proc EXCEPT ![p] =
                 IF pre = "ok"
                 THEN [pc |-> "create", op |-> "directory_post", name |-> directory_name,
                       parent |-> parent, owner |-> db.dirs[parent].owner]
                 ELSE [pc |-> "done", op |-> "directory_post", status |-> pre]]

\* Directory.objects.create, for an id that no other creation has drawn
\* between the draw and the insert
DirectoryPost_create(p, sc) ==
    LET req == proc[p] IN
    /\ req.pc = "create" /\ req.op = "directory_post"
    /\ \E rnd_id \in _create_random_id(sc.dir_ids, DOMAIN Directory) :
          /\ rnd_id # None
          /\ IF req.parent \in DOMAIN Directory
             THEN /\ Store(Directory_create(DB, rnd_id, req.name, req.owner, req.parent))
                  /\ proc' = [proc EXCEPT ![p] =
                        [pc |-> "done", op |-> "directory_post", status |-> "ok"]]
             ELSE /\ UNCHANGED tables
                  /\ proc' = [proc EXCEPT ![p] =
                        [pc |-> "done", op |-> "directory_post", status |-> "internal_error"]]

\* Directory.save(), the loop: an id is drawn until one is met that no
\* committed row has; the object takes it
Directory_save_draw(p, sc) ==
    LET req == proc[p] IN
    /\ req.pc = "create" /\ req.op = "directory_post"
    /\ \E rnd_id \in sc.dir_ids :
          /\ rnd_id \notin DOMAIN Directory
          /\ proc' = [proc EXCEPT ![p] = [req EXCEPT !.pc = "update"] @@ [id |-> rnd_id]]
    /\ UNCHANGED tables

\* Directory.save(), super().save() without force_insert on an object whose
\* id is set: first UPDATE ... WHERE id = self.id, which writes every field
\* of the object over the committed row of that id if there is one
Directory_save_update(p) ==
    LET req == proc[p] IN
    /\ req.pc = "update"
    /\ IF req.id \in DOMAIN Directory
       THEN /\ Store(Directory_save(DB, req.id,
                        [name |-> req.name, owner |-> req.owner, parent |-> req.parent]))
            /\ proc' = [proc EXCEPT ![p] = [req EXCEPT !.pc = "done"] @@ [status |-> "ok"]]
       ELSE /\ UNCHANGED tables
            /\ proc' = [proc EXCEPT ![p] = [req EXCEPT !.pc = "insert"]]

\* Directory.save(), super().save(): the UPDATE met no row, so INSERT, which
\* fails with IntegrityError if a row of that id was committed meanwhile
Directory_save_insert(p) ==
    LET req == proc[p] IN
    /\ req.pc = "insert"
    /\ IF req.id \in DOMAIN Directory \/ req.parent \notin DOMAIN Directory
       THEN /\ UNCHANGED tables
            /\ proc' = [proc EXCEPT ![p] =
                  [pc |-> "done", op |-> "directory_post", status |-> "internal_error"]]
       ELSE /\ Store(Directory_create(DB, req.id, req.name, req.owner, req.parent))
            /\ proc' = [proc EXCEPT ![p] = [req EXCEPT !.pc = "done"] @@ [status |-> "ok"]]

\* The walk of _verify_movable comes to an end: it reaches a parentless
\* directory or meets to_check.  Otherwise the handler never returns.
WalkEnds(db, to_check, target_dir) ==
    \/ to_check \in AncestorsOrSelf(db.dirs, target_dir)
    \/ \E r \in AncestorsOrSelf(db.dirs, target_dir) \cap DOMAIN db.dirs :
          db.dirs[r].parent = None

\* DirectoryView._handle_put up to directory.save(): the object is read and
\* the move and the name are validated
DirectoryPut_begin(p, sc) ==
    \E user_id \in sc.users, directory_id \in Named(DirIds, DOMAIN Directory),
       directory_name \in sc.names \cup {NoName},
       parent \in Named(DirIds, DOMAIN Directory) \cup {None} :
    \E rnd_root \in RootIds(sc, user_id) :
        LET db == _verify_authenticated(DB, user_id, rnd_root)
            pre == DirectoryPut_get(db, user_id, directory_id)
            v == DirectoryPut_validate(db, user_id, directory_id, db.dirs[directory_id],
                                       directory_name, parent)
        IN /\ proc[p].pc = "idle"
           /\ user_id \notin StorageUser => rnd_root # None
           /\ parent \in DOMAIN db.dirs => WalkEnds(db, directory_id, parent)
           /\ Store(db)
           /\ proc' = [proc EXCEPT ![p] =
                 IF pre # "ok"
                 THEN [pc |-> "done", op |-> "directory_put", status |-> pre]
                 ELSE IF v.status # "ok"
                 THEN [pc |-> "done", op |-> "directory_put", status |-> v.status]
                 ELSE [pc |-> "save", op |-> "directory_put", id |-> directory_id,
                       obj |-> v.obj, directory_name |-> directory_name,
                       parent_directory_id |-> parent]]

\* directory.save() and the commit of the transaction
DirectoryPut_save(p) ==
    LET req == proc[p] IN
    /\ req.pc = "save"
    /\ Store(Directory_save(DB, req.id, req.obj))
    /\ proc' = [proc EXCEPT ![p] =
          [pc |-> "done", op |-> "directory_put", status |-> "ok", id |-> req.id]]

\* Mutant: the table StorageUser takes a second row with the same id.
InsertConflicts_never(users, user_id) == FALSE

\* StorageUser.objects.create(id=user_id, ...) is an INSERT, and id is the
\* primary key: it fails with IntegrityError if a committed row has the id.
InsertConflicts(users, user_id) == user_id \in users

\* The first statement of the provisioning transaction of
\* _verify_authenticated, for a request (GET /userinfo) with a valid token:
\* StorageUser.objects.get(id=user_id).
Provision_begin(p, sc) ==
    \E user_id \in sc.users :
        /\ proc[p].pc = "idle"
        /\ proc' = [proc EXCEPT ![p] =
              IF user_id \in StorageUser
              THEN [pc |-> "done", op |-> "user_info", status |-> "ok",
                    user_id |-> user_id, how |-> "found"]
              ELSE [pc |-> "insert_user", op |-> "user_info", user_id |-> user_id]]
        /\ UNCHANGED tables

\* StorageUser.objects.create.  While another transaction holds an
\* uncommitted row with the same id the INSERT waits for it to end; with a
\* committed row it raises IntegrityError, a DatabaseError, which leaves the
\* atomic block and is caught.
Provision_insert_user(p) ==
    LET req == proc[p] IN
    /\ req.pc = "insert_user"
    /\ ~\E q \in Procs \ {p} :
          proc[q].pc = "insert_root" /\ proc[q].user_id = req.user_id
    /\ proc' = [proc EXCEPT ![p] =
          IF InsertConflicts(StorageUser, req.user_id)
          THEN [req EXCEPT !.pc = "fallback"]
          ELSE [req EXCEPT !.pc = "insert_root"]]
    /\ UNCHANGED tables

\* Directory.objects.create(name="root", ...) and the commit of both rows
Provision_insert_root(p, sc) ==
    LET req == proc[p] IN
    /\ req.pc = "insert_root"
    /\ \E rnd_id \in _create_random_id(sc.dir_ids, DOMAIN Directory) :
          /\ rnd_id # None
          /\ Store([DB EXCEPT
                      !.users = @ \cup {req.user_id},
                      !.dirs = @ @@ (rnd_id :> [name |-> "root", owner |-> req.user_id,
                                                parent |-> None])])
    /\ proc' = [proc EXCEPT ![p] =
          [pc |-> "done", op |-> "user_info", status |-> "ok",
           user_id |-> req.user_id, how |-> "created"]]

\* except DatabaseError: StorageUser.objects.get(id=user_id), and the error
\* again if there is still no such user
Provision_fallback(p) ==
    LET req == proc[p] IN
    /\ req.pc = "fallback"
    /\ proc' = [proc EXCEPT ![p] =
          [pc |-> "done", op |-> "user_info",
           status |-> IF req.user_id \in StorageUser THEN "ok" ELSE "internal_error",
           user_id |-> req.user_id, how |-> "fallback"]]
    /\ UNCHANGED tables

\* no request is being handled
AllIdle == \A p \in Procs : proc[p].pc = "idle"

\* the orders in which a queryset can yield the rows S
Orders(S) ==
    {o \in [1..Cardinality(S) -> S] : \A i, j \in DOMAIN o : i # j => o[i] # o[j]}

\* Mutant: the directory that was taken from the list is deleted with its
\* files whether or not there are directories in it.
Cascade_iteration_deletes_first(db, to_delete_list, children) ==
    LET to_delete == to_delete_list[Len(to_delete_list)]
        popped == SubSeq(to_delete_list, 1, Len(to_delete_list) - 1)
    IN [db |-> DeleteDirectory(DeleteFiles(db, ChildFiles(db, to_delete)), to_delete),
        list |-> popped \o children]

\* One turn of the loop `while len(to_delete_list) > 0` of the cascading
\* delete: children is list(to_delete.directory_set.all()).  Yields the rows
\* as the transaction sees them afterwards and the list.
Cascade_iteration(db, to_delete_list, children) ==
    LET to_delete == to_delete_list[Len(to_delete_list)]
        popped == SubSeq(to_delete_list, 1, Len(to_delete_list) - 1)
    IN IF Len(children) = 0
       THEN [db |-> DeleteDirectory(DeleteFiles(db, ChildFiles(db, to_delete)), to_delete),
             list |-> popped]
       ELSE [db |-> db, list |-> popped \o <<to_delete>> \o children]

\* DirectoryView._handle_delete with cascade, up to the loop: the checks, and
\* to_delete_list = [directory].  start is the store at the begin of the
\* transaction, db the rows as the transaction sees them.
Cascade_begin(p, sc) ==
    \E user_id \in sc.users, directory_id \in Named(DirIds, DOMAIN Directory) :
    \E rnd_root \in RootIds(sc, user_id) :
        LET db == _verify_authenticated(DB, user_id, rnd_root)
            r == DirectoryView_handle_delete(DB, user_id, directory_id, TRUE, rnd_root)
        IN /\ AllIdle
           /\ user_id \notin StorageUser => rnd_root # None
           /\ Store(db)
           /\ proc' = [proc EXCEPT ![p] =
                 IF r.status # "ok"
                 THEN [pc |-> "done", op |-> "directory_delete", status |-> r.status]
                 ELSE [pc |-> "cascade", op |-> "directory_delete",
                       directory |-> directory_id, start |-> db, db |-> db,
                       list |-> <<directory_id>>, turns |-> 0]]

\* one turn of the loop; after the last one the transaction commits
Cascade_step(p) ==
    LET req == proc[p] IN
    /\ req.pc = "cascade"
    /\ \E children \in Orders(ChildDirs(req.db, req.list[Len(req.list)])) :
          LET it == Cascade_iteration(req.db, req.list, children) IN
          IF Len(it.list) = 0
          THEN /\ Store(it.db)
               /\ proc' = [proc EXCEPT ![p] =
                     [pc |-> "done", op |-> "directory_delete", status |-> "ok",
                      directory |-> req.directory, start |-> req.start,
                      turns |-> req.turns + 1]]
          ELSE /\ UNCHANGED tables
               /\ proc' = [proc EXCEPT ![p] =
                     [req EXCEPT !.db = it.db, !.list = it.list, !.turns = @ + 1]]

\* the response is sent and the worker takes the next request
Respond(p) ==
    /\ proc[p].pc = "done"
    /\ proc' = [proc EXCEPT ![p] = Idle]
    /\ UNCHANGED tables

\* --------------------------------------------------------------- scenarios
\* Directory tree: both users create, rename, move and delete directories and
\* (empty) files; one write-capable share on a directory lets the other user in.
ScTree == [users |-> Users, names |-> Names, bodies |-> {0},
           targets |-> {"directory"}, can_write |-> {TRUE},
           dir_ids |-> DirIds, file_ids |-> 1..(MaxFileId - 1), share_ids |-> 1..(MaxShareId - 1)]

NextTree ==
    \/ FileGet(ScTree)
    \/ DirectoryGet(ScTree)
    \/ FilePost(ScTree)
    \/ FilePut(ScTree)
    \/ FileDelete(ScTree)
    \/ DirectoryPost(ScTree)
    \/ DirectoryPut(ScTree)
    \/ DirectoryDelete(ScTree)
    \/ SharePost(ScTree)

SpecTree == Init /\ [][NextTree]_vars

\* Access: one name, so a chain of directories with a file at its end, and
\* shares of both kinds on any of them.
ScAccess == [users |-> Users, names |-> {"a"}, bodies |-> {0},
             targets |-> {"file", "directory"}, can_write |-> BOOLEAN,
             dir_ids |-> DirIds, file_ids |-> 1..(MaxFileId - 1), share_ids |-> ShareIds]

NextAccess ==
    \/ FilePost(ScAccess)
    \/ DirectoryPost(ScAccess)
    \/ DirectoryPut(ScAccess)
    \/ SharePost(ScAccess)
    \/ ShareDelete(ScAccess)

SpecAccess == Init /\ [][NextAccess]_vars

\* Quota: files with contents in the root directories, and one write-capable
\* share that lets a user upload into the other user's root.
ScQuota == [users |-> Users, names |-> Names, bodies |-> Bodies,
            targets |-> {"directory"}, can_write |-> {TRUE},
            dir_ids |-> DirIds, file_ids |-> FileIds, share_ids |-> 1..(MaxShareId - 1)]

NextQuota ==
    \/ FilePost(ScQuota)
    \/ FilePut(ScQuota)
    \/ FileDelete(ScQuota)
    \/ SharePost(ScQuota)

SpecQuota == Init /\ [][NextQuota]_vars

\* Shares: three users, so that a share has an issuer, a subject and a user
\* who is neither; the shares are on the root directories and on a file.
ScShare == [users |-> AllUsers, names |-> {"a"}, bodies |-> {0},
            targets |-> {"file", "directory"}, can_write |-> BOOLEAN,
            dir_ids |-> DirIds, file_ids |-> 1..(MaxFileId - 1), share_ids |-> ShareIds]

NextShare ==
    \/ FilePost(ScShare)
    \/ SharePost(ScShare)
    \/ ShareGet(ScShare)
    \/ ShareDelete(ScShare)

SpecShare == Init /\ [][NextShare]_vars

\* Names: one user, two files and three directories below the root.
ScNames == [users |-> {1}, names |-> Names, bodies |-> {0},
            targets |-> {"directory"}, can_write |-> {TRUE},
            dir_ids |-> DirIds, file_ids |-> FileIds, share_ids |-> {}]

NextNames ==
    \/ FilePost(ScNames)
    \/ FilePut(ScNames)
    \/ FileDelete(ScNames)
    \/ DirectoryPost(ScNames)
    \/ DirectoryPut(ScNames)
    \/ DirectoryDelete(ScNames)

SpecNames == Init /\ [][NextNames]_vars

\* Concurrent uploads of one user into its root.
ScConcQuota == [users |-> {1}, names |-> Names \cup {"c"}, bodies |-> {LIMIT_SINGLE_FILE_SIZE},
                dir_ids |-> 1..1, file_ids |-> 1..(MaxFileId + 1)]

NextConcQuota ==
    \E p \in Procs :
        \/ FilePost_begin(p, ScConcQuota)
        \/ FilePost_quota(p)
        \/ FilePost_create(p, ScConcQuota)
        \/ Respond(p)

SpecConcQuota == Init /\ [][NextConcQuota]_vars

\* Concurrent creations, renames and moves of the directories of one user.
ScConcTree == [users |-> {1}, names |-> Names, dir_ids |-> 1..(MaxDirId - 1)]

NextConcTree ==
    \E p \in Procs :
        \/ DirectoryPost_begin(p, ScConcTree)
        \/ DirectoryPost_create(p, ScConcTree)
        \/ DirectoryPut_begin(p, ScConcTree)
        \/ DirectoryPut_save(p)
        \/ Respond(p)

SpecConcTree == Init /\ [][NextConcTree]_vars

\* Concurrent creations of directories of one user, with the steps of
\* Directory.save() taken one by one.
ScConcIds == [users |-> {1}, names |-> Names, dir_ids |-> 1..(MaxDirId - 1)]

NextConcIds ==
    \E p \in Procs :
        \/ DirectoryPost_begin(p, ScConcIds)
        \/ Directory_save_draw(p, ScConcIds)
        \/ Directory_save_update(p)
        \/ Directory_save_insert(p)
        \/ Respond(p)

SpecConcIds == Init /\ [][NextConcIds]_vars

\* Accounts: three users are seen for the first time under good and bad
\* tokens, add and remove contacts, and are deleted again.
ScUsers == [users |-> AllUsers, dir_ids |-> 1..MaxUser]

NextUsers ==
    \/ UserInfoGet(ScUsers)
    \/ ContactGet(ScUsers)
    \/ ContactPost(ScUsers)
    \/ ContactDelete(ScUsers)
    \/ DeleteUser(ScUsers)

SpecUsers == Init /\ [][NextUsers]_vars

\* Deleted accounts: two users with directories, a file, shares in both
\* directions and contacts; either account is deleted at any moment.
ScDelete == [users |-> Users, names |-> {"a"}, bodies |-> {1},
             targets |-> {"file", "directory"}, can_write |-> {TRUE},
             dir_ids |-> DirIds, file_ids |-> 1..(MaxFileId - 1), share_ids |-> ShareIds]

NextDelete ==
    \/ DirectoryPost(ScDelete)
    \/ FilePost(ScDelete)
    \/ SharePost(ScDelete)
    \/ ContactPost(ScDelete)
    \/ DeleteUser(ScDelete)

SpecDelete == Init /\ [][NextDelete]_vars

\* Concurrent first requests: two workers serve requests with valid tokens
\* of three users who are not known yet.
ScConcAuth == [users |-> AllUsers, dir_ids |-> 1..MaxUser]

NextConcAuth ==
    \E p \in Procs :
        \/ Provision_begin(p, ScConcAuth)
        \/ Provision_insert_user(p)
        \/ Provision_insert_root(p, ScConcAuth)
        \/ Provision_fallback(p)
        \/ Respond(p)

SpecConcAuth == Init /\ [][NextConcAuth]_vars

\* Cascading delete, turn by turn: one user builds a tree of directories and
\* files below his root and deletes subtrees of it; while the loop of a
\* delete runs no other request is served.  The loop is a running piece of
\* code: it takes its next turn (weak fairness).
ScCascade == [users |-> {1}, names |-> Names, bodies |-> {0},
              dir_ids |-> DirIds, file_ids |-> FileIds]

NextCascade ==
    \/ AllIdle /\ DirectoryPost(ScCascade)
    \/ AllIdle /\ FilePost(ScCascade)
    \/ \E p \in Procs :
          \/ Cascade_begin(p, ScCascade)
          \/ Cascade_step(p)
          \/ Respond(p)

SpecCascade ==
    Init /\ [][NextCascade]_vars /\ \A p \in Procs : WF_vars(Cascade_step(p))

\* ------------------------------------------------------------------ claims
\* u owns directory n, or a share on n with subject u grants the request
DirNodeGrants(n, u, w) ==
    \/ Directory[n].owner = u
    \/ \E s \in DOMAIN Share :
          /\ Share[s].target_directory = n
          /\ Share[s].subject = u
          /\ (Share[s].can_write \/ ~w)

FileNodeGrants(f, u, w) ==
    \/ File[f].owner = u
    \/ \E s \in DOMAIN Share :
          /\ Share[s].target_file = f
          /\ Share[s].subject = u
          /\ (Share[s].can_write \/ ~w)

\* C1: can_access(u, e, w) is true exactly when u owns a node of the chain
\* e, parent(e), ..., root or a node of the chain is the target of a share
\* with subject u that is write-capable, or any share when w is false; so the
\* owner of a directory gets read and write, and a parentless directory
\* without owner or local grant denies access.
C1_AccessIsChainGrant ==
    \A u \in Users, w \in BOOLEAN :
        /\ \A d \in DOMAIN Directory :
              /\ can_access(DB, "directory", d, u, w)
                   <=> \E n \in AncestorsOrSelf(Directory, d) : DirNodeGrants(n, u, w)
              /\ can_access(DB, "directory", d, Directory[d].owner, w)
              /\ (Directory[d].parent = None /\ ~DirNodeGrants(d, u, w))
                   => ~can_access(DB, "directory", d, u, w)
        /\ \A f \in DOMAIN File :
              can_access(DB, "file", f, u, w)
                <=> \/ FileNodeGrants(f, u, w)
                    \/ \E n \in AncestorsOrSelf(Directory, File[f].parent_directory) :
                          DirNodeGrants(n, u, w)

\* A file whose access is decided two levels up: a user who neither owns it
\* nor holds a share on it or on its directory reads it through a read-only
\* share on the directory above, and may not write it.
C1_Witness ==
    \E f \in DOMAIN File, u \in Users :
        LET d == File[f].parent_directory IN
        /\ ~FileNodeGrants(f, u, FALSE)
        /\ ~DirNodeGrants(d, u, FALSE)
        /\ Directory[d].parent # None
        /\ DirNodeGrants(Directory[d].parent, u, FALSE)
        /\ can_access(DB, "file", f, u, FALSE)
        /\ ~can_access(DB, "file", f, u, TRUE)

\* C2: a write-capable share on directory D gives its subject write access to
\* every directory and file below D, without a share on the descendant and
\* also when the descendant itself carries only a read-only share for the
\* subject.
C2_WriteShareInherited ==
    \A s \in DOMAIN Share :
        (Share[s].can_write /\ Share[s].target_directory # None) =>
            LET D == Share[s].target_directory
                U == Share[s].subject
            IN /\ \A d \in DescendantsOrSelf(Directory, D) :
                      can_access(DB, "directory", d, U, TRUE)
               /\ \A f \in DOMAIN File :
                      File[f].parent_directory \in DescendantsOrSelf(Directory, D)
                        => can_access(DB, "file", f, U, TRUE)

\* A write-capable share on D, and a child directory of D that carries a
\* read-only share for the same subject, written by the subject all the same.
C2_Witness ==
    \E s, t \in DOMAIN Share :
        /\ Share[s].can_write /\ Share[s].target_directory # None
        /\ ~Share[t].can_write /\ Share[t].target_directory # None
        /\ Share[t].subject = Share[s].subject
        /\ Share[t].target_directory \in DOMAIN Directory
        /\ Directory[Share[t].target_directory].parent = Share[s].target_directory
        /\ Directory[Share[t].target_directory].owner # Share[s].subject
        /\ can_access(DB, "directory", Share[t].target_directory, Share[s].subject, TRUE)

\* C3: after any sequence of file creations and content overwrites, by
\* owners and by users who hold write-capable shares, the lengths of the
\* files a user owns add up to at most LIMIT_USER_TOTAL_SIZE.
C3_QuotaRespected ==
    \A u \in Users : QuotaSum(DB, u, None) <= LIMIT_USER_TOTAL_SIZE

\* An id no file has, for a creation that is only evaluated.
NewFileId == MaxFileId + 1

C6_MoveIntoSubtreeRejected ==
    \A u \in Users, A \in DOMAIN Directory, name \in Names \cup {NoName} :
        \A T \in DescendantsOrSelf(Directory, A) :
            ( /\ Directory[A].parent # None
              /\ _verify_can_access(DB, "directory", A, u, TRUE) = "ok"
              /\ _verify_can_access(DB, "directory", Directory[A].parent, u, TRUE) = "ok"
              /\ _verify_can_access(DB, "directory", T, u, TRUE) = "ok" )
            => LET r == DirectoryView_handle_put(DB, u, A, name, T, None)
               IN r.status = "cycle_detected" /\ r.db = DB

\* A user who does not own A but may write it is refused the move of A into
\* a directory below A.
C6_Witness ==
    \E u \in Users, A \in DOMAIN Directory :
        \E T \in DescendantsOrSelf(Directory, A) \ {A} :
            /\ Directory[A].parent # None
            /\ Directory[A].owner # u
            /\ _verify_can_access(DB, "directory", Directory[A].parent, u, TRUE) = "ok"
            /\ DirectoryView_handle_put(DB, u, A, NoName, T, None).status
                   = "cycle_detected"

\* C7: the parent relation over directories is acyclic, and every directory
\* and every file reaches the root of its owner by following parent links.
ReachesOwnersRoot(d, owner) ==
    /\ d \in DOMAIN Directory
    /\ \E r \in AncestorsOrSelf(Directory, d) :
          /\ r \in DOMAIN Directory
          /\ Directory[r].parent = None
          /\ Directory[r].owner = owner

C7_TreeAcyclicNoOrphans ==
    /\ \A d \in DOMAIN Directory :
          /\ Directory[d].parent # None =>
                d \notin AncestorsOrSelf(Directory, Directory[d].parent)
          /\ ReachesOwnersRoot(d, Directory[d].owner)
    /\ \A f \in DOMAIN File :
          ReachesOwnersRoot(File[f].parent_directory, File[f].owner)

\* A file two directories below the root, next to a directory that was
\* created later than the directory that now is its child, so it was moved.
C7_Witness ==
    \E f \in DOMAIN File, d, e \in DOMAIN Directory :
        /\ File[f].parent_directory = d
        /\ Directory[d].parent = e
        /\ Directory[e].parent # None
        /\ d < e

\* C9: no two children of a directory, files and directories taken together,
\* share a name; a creation under a name a child of the parent has, and a
\* rename or move (valid but for the name) that meets a sibling of that name
\* other than the entity itself, fails with duplicate_name and changes nothing.
Children(P) ==
    {<<"file", f>> : f \in ChildFiles(DB, P)}
        \cup {<<"directory", c>> : c \in ChildDirs(DB, P)}

NameOf(e) == IF e[1] = "file" THEN File[e[2]].name ELSE Directory[e[2]].name

ParentOf(e) == IF e[1] = "file" THEN File[e[2]].parent_directory
               ELSE Directory[e[2]].parent

OwnerOf(e) == IF e[1] = "file" THEN File[e[2]].owner ELSE Directory[e[2]].owner

Entities == {<<"file", f>> : f \in DOMAIN File}
                \cup {<<"directory", d>> : d \in DOMAIN Directory}

\* the response to PUT on e with the given name and parent, no content
PutOf(u, e, name, parent) ==
    IF e[1] = "file"
    THEN FileView_handle_put(DB, u, e[2], name, parent, FALSE, 0, None)
    ELSE DirectoryView_handle_put(DB, u, e[2], name, parent, None)

C9_SiblingNamesUnique ==
    /\ \A P \in DOMAIN Directory : \A x, y \in Children(P) :
          x # y => NameOf(x) # NameOf(y)
    /\ \A u \in StorageUser, P \in DOMAIN Directory : \A x \in Children(P) :
          _verify_can_access(DB, "directory", P, u, TRUE) = "ok" =>
             /\ LET r == FileView_handle_post(DB, u, NameOf(x), P, 0, None, NewFileId)
                IN r.status = "duplicate_name" /\ r.db = DB
             /\ LET r == DirectoryView_handle_post(DB, u, NameOf(x), P, None, MaxDirId + 1)
                IN r.status = "duplicate_name" /\ r.db = DB
    /\ \A u \in StorageUser, e \in Entities, T \in DOMAIN Directory \cup {None},
          name \in Names \cup {NoName} :
          LET target == IF T = None THEN ParentOf(e) ELSE T
              new_name == IF name = NoName THEN NameOf(e) ELSE name
          IN ( /\ ParentOf(e) # None
               /\ name # NoName \/ T # None
               /\ _verify_can_access(DB, e[1], e[2], u, TRUE) = "ok"
               /\ _verify_can_access(DB, "directory", ParentOf(e), u, TRUE) = "ok"
               /\ _verify_can_access(DB, "directory", target, u, TRUE) = "ok"
               /\ OwnerOf(e) = Directory[target].owner
               /\ OwnerOf(e) = Directory[ParentOf(e)].owner
               /\ e[1] = "directory" => e[2] \notin AncestorsOrSelf(Directory, target)
               /\ \E x \in Children(target) : x # e /\ NameOf(x) = new_name )
             => LET r == PutOf(u, e, name, T)
                IN r.status = "duplicate_name" /\ r.db = DB

\* Two files and a directory with a file and a directory of one name in
\* different directories: the move of the file next to the directory and the
\* creation of a second file of that name are both refused.
C9_Witness ==
    \E f, g \in DOMAIN File, d \in DOMAIN Directory :
        /\ f # g
        /\ File[f].name = Directory[d].name
        /\ File[f].parent_directory # Directory[d].parent
        /\ File[g].parent_directory = File[f].parent_directory
        /\ PutOf(File[f].owner, <<"file", f>>, NoName, Directory[d].parent).status
               = "duplicate_name"
        /\ FileView_handle_post(DB, File[f].owner, File[g].name, File[f].parent_directory,
                                0, None, NewFileId).status = "duplicate_name"

\* C11: a file has the owner of its parent directory and a directory with a
\* parent the owner of that parent; an entity created under P gets the owner
\* of P whoever the caller is; a move of an entity, by a caller who may write
\* the entity, its parent and the target, is rejected with
\* transferral_rejected and changes nothing when the entity, its parent and
\* the target do not all have one owner.
C11_OwnerFollowsParent ==
    /\ \A f \in DOMAIN File :
          File[f].owner = Directory[File[f].parent_directory].owner
    /\ \A d \in DOMAIN Directory :
          Directory[d].parent # None =>
              Directory[d].owner = Directory[Directory[d].parent].owner
    /\ \A u \in StorageUser, P \in DOMAIN Directory, name \in Names :
          LET rf == FileView_handle_post(DB, u, name, P, 0, None, NewFileId)
              rd == DirectoryView_handle_post(DB, u, name, P, None, MaxDirId + 1)
          IN /\ rf.status = "ok" =>
                   rf.db.files[NewFileId].owner = Directory[P].owner
             /\ rd.status = "ok" =>
                   rd.db.dirs[MaxDirId + 1].owner = Directory[P].owner
    /\ \A u \in StorageUser, e \in Entities, T \in DOMAIN Directory,
          name \in Names \cup {NoName} :
          ( /\ ParentOf(e) # None
            /\ _verify_can_access(DB, e[1], e[2], u, TRUE) = "ok"
            /\ _verify_can_access(DB, "directory", ParentOf(e), u, TRUE) = "ok"
            /\ _verify_can_access(DB, "directory", T, u, TRUE) = "ok"
            /\ \/ OwnerOf(e) # Directory[ParentOf(e)].owner
               \/ OwnerOf(e) # Directory[T].owner )
          => LET r == PutOf(u, e, name, T)
             IN r.status = "transferral_rejected" /\ r.db = DB

\* A user who may write a directory of another user: a file the user creates
\* there belongs to the other user, and the move of a directory of the
\* user's own into it is rejected.
C11_Witness ==
    \E u \in StorageUser, d, T \in DOMAIN Directory :
        /\ Directory[d].owner = u /\ Directory[d].parent # None
        /\ Directory[T].owner # u
        /\ PutOf(u, <<"directory", d>>, NoName, T).status = "transferral_rejected"
        /\ LET rf == FileView_handle_post(DB, u, "a", T, 0, None, NewFileId)
           IN rf.status = "ok" /\ rf.db.files[NewFileId].owner # u

\* C12: the move of a directory without a parent, by a caller who may write
\* it and the target, fails with unmovable_directory for every target and
\* with or without a new name, and leaves the store as it is.
C12_RootUnmovable ==
    \A u \in StorageUser, R, T \in DOMAIN Directory, name \in Names \cup {NoName} :
        ( /\ Directory[R].parent = None
          /\ _verify_can_access(DB, "directory", R, u, TRUE) = "ok"
          /\ _verify_can_access(DB, "directory", T, u, TRUE) = "ok" )
        => LET r == DirectoryView_handle_put(DB, u, R, name, T, None)
           IN r.status = "unmovable_directory" /\ r.db = DB

\* A user who holds a write-capable share on the root of another user asks
\* to move that root into a directory of its own.
C12_Witness ==
    \E u \in StorageUser, R, T \in DOMAIN Directory :
        /\ Directory[R].parent = None
        /\ Directory[R].owner # u
        /\ Directory[T].owner = u
        /\ DirectoryView_handle_put(DB, u, R, NoName, T, None).status
               = "unmovable_directory"

\* C13: every user owns exactly one directory without a parent, which is
\* there from the step on that creates the user; no request removes a
\* parentless directory or gives it a parent, and the delete of one, strict
\* or cascading, by a caller who may write it fails with unmovable_directory.
C13_State ==
    /\ \A u \in StorageUser :
          Cardinality({d \in DOMAIN Directory :
                          Directory[d].owner = u /\ Directory[d].parent = None}) = 1
    /\ \A d \in DOMAIN Directory : Directory[d].owner \in StorageUser
    /\ \A u \in StorageUser, R \in DOMAIN Directory, cascade \in BOOLEAN :
          ( /\ Directory[R].parent = None
            /\ _verify_can_access(DB, "directory", R, u, TRUE) = "ok" )
          => LET r == DirectoryView_handle_delete(DB, u, R, cascade, None)
             IN r.status = "unmovable_directory" /\ r.db = DB

C13_Step ==
    \A d \in DOMAIN Directory :
        Directory[d].parent = None =>
            d \in DOMAIN Directory' /\ Directory'[d] = Directory[d]

C13_OneRootPerUser == []C13_State /\ [][C13_Step]_vars

\* Both users are there, and one of them, holding a write-capable share on
\* the root of the other with a directory in it, asks to delete that root
\* with all it holds.
C13_Witness ==
    \E u \in StorageUser, R, c \in DOMAIN Directory :
        /\ StorageUser = Users
        /\ Directory[R].parent = None
        /\ Directory[R].owner # u
        /\ Directory[c].parent = R
        /\ DirectoryView_handle_delete(DB, u, R, TRUE, None).status
               = "unmovable_directory"

\* C14: a cascading delete of a directory D with a parent, by a caller who
\* may write D and its parent, succeeds and removes exactly D, the directories
\* below D and the files in them: every read of one of them is answered
\* not_found afterwards, and every other directory and file is as before.
C14_CascadeRemovesSubtree ==
    \A u \in StorageUser, D \in DOMAIN Directory :
        ( /\ Directory[D].parent # None
          /\ _verify_can_access(DB, "directory", D, u, TRUE) = "ok"
          /\ _verify_can_access(DB, "directory", Directory[D].parent, u, TRUE) = "ok" )
        => LET r == DirectoryView_handle_delete(DB, u, D, TRUE, None)
               sub == DescendantsOrSelf(Directory, D)
               subfiles == {f \in DOMAIN File : File[f].parent_directory \in sub}
           IN /\ r.status = "ok"
              /\ DOMAIN r.db.dirs = (DOMAIN Directory) \ sub
              /\ \A d \in DOMAIN r.db.dirs : r.db.dirs[d] = Directory[d]
              /\ DOMAIN r.db.files = (DOMAIN File) \ subfiles
              /\ \A f \in DOMAIN r.db.files : r.db.files[f] = File[f]
              /\ r.db.users = StorageUser
              /\ \A v \in StorageUser :
                    /\ \A d \in sub :
                          DirectoryView_handle_get(r.db, v, d, None).status = "not_found"
                    /\ \A f \in subfiles :
                          FileView_handle_get(r.db, v, f, None).status = "not_found"

\* A directory that holds a directory with a file in it, next to a directory
\* that stays.
C14_Witness ==
    \E D, c, o \in DOMAIN Directory, f \in DOMAIN File :
        /\ Directory[D].parent # None
        /\ Directory[c].parent = D
        /\ File[f].parent_directory = c
        /\ Directory[o].parent = Directory[D].parent /\ o # D
        /\ DirectoryView_handle_delete(DB, Directory[D].owner, D, TRUE, None).status = "ok"

\* C15: a delete without cascade of a directory D with a parent, by a caller
\* who may write D and its parent, fails with not_empty and deletes nothing
\* when D has a child file or a child directory, and removes exactly D when D
\* has neither.
C15_StrictDelete ==
    \A u \in StorageUser, D \in DOMAIN Directory :
        ( /\ Directory[D].parent # None
          /\ _verify_can_access(DB, "directory", D, u, TRUE) = "ok"
          /\ _verify_can_access(DB, "directory", Directory[D].parent, u, TRUE) = "ok" )
        => LET r == DirectoryView_handle_delete(DB, u, D, FALSE, None)
           IN IF ChildFiles(DB, D) # {} \/ ChildDirs(DB, D) # {}
              THEN r.status = "not_empty" /\ r.db = DB
              ELSE /\ r.status = "ok"
                   /\ DOMAIN r.db.dirs = (DOMAIN Directory) \ {D}
                   /\ \A d \in DOMAIN r.db.dirs : r.db.dirs[d] = Directory[d]
                   /\ r.db.files = File
                   /\ r.db.users = StorageUser

\* A directory that holds a directory and no file is refused, the empty
\* directory in it is deleted.
C15_Witness ==
    \E D, c \in DOMAIN Directory :
        /\ Directory[D].parent # None
        /\ Directory[c].parent = D
        /\ ChildFiles(DB, D) = {}
        /\ DirectoryView_handle_delete(DB, Directory[D].owner, D, FALSE, None).status
               = "not_empty"
        /\ DirectoryView_handle_delete(DB, Directory[D].owner, c, FALSE, None).status
               = "ok"

\* C16: no stored file is longer than LIMIT_SINGLE_FILE_SIZE, and a creation
\* or a content overwrite with a longer body, valid otherwise, fails with
\* quota_exceeded whatever the usage of the user is.
C16_PerFileCap ==
    /\ \A f \in DOMAIN File : File[f].data <= LIMIT_SINGLE_FILE_SIZE
    /\ \A u \in StorageUser, n \in Bodies :
          n > LIMIT_SINGLE_FILE_SIZE =>
             /\ \A P \in DOMAIN Directory, name \in Names :
                   ( /\ _verify_can_access(DB, "directory", P, u, TRUE) = "ok"
                     /\ _verify_unique_names_str(DB, name, P) = "ok" )
                   => LET r == FileView_handle_post(DB, u, name, P, n, None, NewFileId)
                      IN r.status = "quota_exceeded" /\ r.db = DB
             /\ \A f \in DOMAIN File :
                   _verify_can_access(DB, "file", f, u, TRUE) = "ok"
                   => LET r == FileView_handle_put(DB, u, f, NoName, None, TRUE, n, None)
                      IN r.status = "quota_exceeded" /\ r.db = DB

C18_ShareAccess ==
    \A s \in DOMAIN Share, u \in AllUsers :
        LET g == ShareView_handle_get(DB, u, s, MaxDirId + 1)
            d == ShareView_handle_delete(DB, u, s, MaxDirId + 1)
        IN IF u = Share[s].issuer
           THEN /\ g.status = "ok"
                /\ d.status = "ok"
                /\ DOMAIN d.db.shares = (DOMAIN Share) \ {s}
                /\ \A t \in DOMAIN d.db.shares : d.db.shares[t] = Share[t]
           ELSE IF u = Share[s].subject
           THEN /\ g.status = "ok"
                /\ d.status = "permission_denied"
                /\ d.db = DB
           ELSE /\ g.status = "not_found"
                /\ d.status = "not_found"
                /\ d.db.shares = Share
                /\ u \in StorageUser => d.db = DB

\* Three users and a write-capable share between two of them, which its
\* subject may not delete and the third user does not get to see.
C18_Witness ==
    \E s \in DOMAIN Share, u \in StorageUser :
        /\ u # Share[s].issuer /\ u # Share[s].subject
        /\ Share[s].can_write /\ Share[s].target_directory # None
        /\ ShareView_handle_delete(DB, Share[s].subject, s, None).status
               = "permission_denied"
        /\ can_access(DB, "directory", Share[s].target_directory, Share[s].subject, TRUE)
        /\ ShareView_handle_get(DB, u, s, None).status = "not_found"

\* An id no share has, for a creation that is only evaluated.
NewShareId == MaxShareId + 1

\* C19: a user who may write a file or a directory, as its owner or through
\* a write-capable share on it or on a directory above it, creates a share
\* on it for every other existing user.
C19_WriterCanShare ==
    \A u \in StorageUser : \A subject \in StorageUser \ {u}, can_write \in BOOLEAN :
        /\ \A d \in DOMAIN Directory :
              can_access(DB, "directory", d, u, TRUE) =>
                  ShareView_handle_post(DB, u, subject, "directory", d, can_write,
                                        None, NewShareId).status = "ok"
        /\ \A f \in DOMAIN File :
              can_access(DB, "file", f, u, TRUE) =>
                  ShareView_handle_post(DB, u, subject, "file", f, can_write,
                                        None, NewShareId).status = "ok"

\* C20: the issuer of every share is the owner of the file or directory the
\* share is on.
C20_IssuerOwnsTarget ==
    \A s \in DOMAIN Share :
        /\ Share[s].target_directory # None =>
              /\ Share[s].target_directory \in DOMAIN Directory
              /\ Share[s].issuer = Directory[Share[s].target_directory].owner
        /\ Share[s].target_file # None =>
              /\ Share[s].target_file \in DOMAIN File
              /\ Share[s].issuer = File[Share[s].target_file].owner
        /\ (Share[s].target_directory # None) # (Share[s].target_file # None)

\* A write-capable share on a directory with a file below it: its subject
\* may write the file and the directory, and is refused a share on either.
C20_Witness ==
    \E s \in DOMAIN Share, f \in DOMAIN File :
        LET u == Share[s].subject
            D == Share[s].target_directory
        IN /\ Share[s].can_write /\ D # None
           /\ File[f].parent_directory = D
           /\ can_access(DB, "file", f, u, TRUE)
           /\ ShareView_handle_post(DB, u, Share[s].issuer, "file", f, TRUE,
                                    None, NewShareId).status = "permission_denied"
           /\ ShareView_handle_post(DB, u, Share[s].issuer, "directory", D, TRUE,
                                    None, NewShareId).status = "permission_denied"

\* C21: every share has a subject other than its issuer and is on a file or
\* on a directory, never on both and never on neither; the owner of a file
\* or directory who asks for a share on it with himself as the subject is
\* answered invalid_subject, and no share is created.
C21_ShareWellFormed ==
    /\ \A s \in DOMAIN Share :
          /\ Share[s].issuer # Share[s].subject
          /\ Cardinality({k \in {"file", "directory"} :
                 (IF k = "file" THEN Share[s].target_file
                  ELSE Share[s].target_directory) # None}) = 1
    /\ \A u \in StorageUser, can_write \in BOOLEAN :
          /\ \A d \in DOMAIN Directory :
                Directory[d].owner = u =>
                    ShareView_handle_post(DB, u, u, "directory", d, can_write,
                                          None, NewShareId)
                        = Resp("invalid_subject", DB)
          /\ \A f \in DOMAIN File :
                File[f].owner = u =>
                    ShareView_handle_post(DB, u, u, "file", f, can_write,
                                          None, NewShareId)
                        = Resp("invalid_subject", DB)

\* A user who owns a file that is shared with another user, and who is
\* refused a share on that file and one on its directory for himself.
C21_Witness ==
    \E s \in DOMAIN Share, f \in DOMAIN File :
        LET u == Share[s].issuer IN
        /\ Share[s].target_file = f /\ File[f].owner = u
        /\ Share[s].subject # u
        /\ ShareView_handle_post(DB, u, u, "file", f, TRUE, None,
                                 NewShareId).status = "invalid_subject"
        /\ ShareView_handle_post(DB, u, u, "directory", File[f].parent_directory,
                                 FALSE, None, NewShareId).status = "invalid_subject"

\* The id of the root of a caller who is provisioned by the request at hand.
FirstRoot(u) == IF u \in StorageUser THEN None ELSE MaxDirId + 1

\* What the access rule of the claim says about u and one entity.
Verdict(u, e) ==
    IF can_access(DB, e[1], e[2], u, TRUE) THEN "ok"
    ELSE IF can_access(DB, e[1], e[2], u, FALSE) THEN "permission_denied"
    ELSE "not_found"

\* The verdict on the first entity of a sequence that u may not write.
RECURSIVE FirstVerdict(_, _)
FirstVerdict(u, L) ==
    IF L = <<>> THEN "ok"
    ELSE IF Verdict(u, Head(L)) # "ok" THEN Verdict(u, Head(L))
    ELSE FirstVerdict(u, Tail(L))

\* <<d>> for a directory id, nothing for None
DirEntity(d) == IF d = None THEN <<>> ELSE << <<"directory", d>> >>

\* r is the refusal that the entities L call for: if u may write them all
\* nothing is said, else the status is the verdict on the first that he may
\* not write and the store is as it was (but for the caller's own record and
\* root, when this is his first request).
Refused(u, L, r) ==
    FirstVerdict(u, L) # "ok" =>
        r = Resp(FirstVerdict(u, L), _verify_authenticated(DB, u, FirstRoot(u)))

\* C22: a mutating request on files, directories and shares that is well
\* formed and names existing entities looks at the entities it needs write
\* access to in a fixed order; at the first of them that the caller may not
\* write it ends, with not_found if the caller may not read the entity and
\* with permission_denied if he may read it, and nothing has been changed.
C22_AccessFailureStatus ==
    \A u \in AllUsers :
        /\ \A P \in DOMAIN Directory, name \in Names :
              /\ \A body \in 0..LIMIT_SINGLE_FILE_SIZE :
                    Refused(u, DirEntity(P),
                        FileView_handle_post(DB, u, name, P, body, FirstRoot(u), NewFileId))
              /\ Refused(u, DirEntity(P),
                     DirectoryView_handle_post(DB, u, name, P, FirstRoot(u), MaxDirId + 2))
        /\ \A f \in DOMAIN File :
              /\ Refused(u, << <<"file", f>> >> \o DirEntity(File[f].parent_directory),
                     FileView_handle_delete(DB, u, f, FirstRoot(u)))
              /\ \A name \in Names \cup {NoName}, P \in DOMAIN Directory \cup {None},
                    wb \in {<<FALSE, 0>>} \cup {<<TRUE, b>> : b \in Bodies} :
                    Refused(u, << <<"file", f>> >>
                                 \o (IF name = NoName /\ P = None THEN <<>>
                                     ELSE DirEntity(File[f].parent_directory)
                                          \o DirEntity(P)),
                        FileView_handle_put(DB, u, f, name, P, wb[1], wb[2], FirstRoot(u)))
        /\ \A d \in DOMAIN Directory :
              /\ \A cascade \in BOOLEAN :
                    Refused(u, DirEntity(d) \o DirEntity(Directory[d].parent),
                        DirectoryView_handle_delete(DB, u, d, cascade, FirstRoot(u)))
              /\ \A name \in Names \cup {NoName}, P \in DOMAIN Directory \cup {None} :
                    Refused(u, DirEntity(d)
                                 \o (IF name = NoName /\ P = None THEN <<>>
                                     ELSE DirEntity(Directory[d].parent) \o DirEntity(P)),
                        DirectoryView_handle_put(DB, u, d, name, P, FirstRoot(u)))
        /\ \A subject \in StorageUser, can_write \in BOOLEAN :
              /\ \A d \in DOMAIN Directory :
                    Refused(u, DirEntity(d),
                        ShareView_handle_post(DB, u, subject, "directory", d, can_write,
                                              FirstRoot(u), NewShareId))
              /\ \A f \in DOMAIN File :
                    Refused(u, << <<"file", f>> >>,
                        ShareView_handle_post(DB, u, subject, "file", f, can_write,
                                              FirstRoot(u), NewShareId))
        /\ \A s \in DOMAIN Share :
              Refused(u, << <<"share", s>> >>,
                  ShareView_handle_delete(DB, u, s, FirstRoot(u)))

\* A directory shared for reading only, with a file in it: its subject is
\* refused with permission_denied when he creates, renames or deletes
\* there or deletes the share, and a user without any grant is refused the
\* same requests with not_found.
C22_Witness ==
    \E s \in DOMAIN Share, f \in DOMAIN File, v \in AllUsers \ StorageUser :
        LET u == Share[s].subject
            D == Share[s].target_directory
        IN /\ D # None /\ ~Share[s].can_write
           /\ File[f].parent_directory = D
           /\ Directory[D].owner # u
           /\ FileView_handle_post(DB, u, "b", D, 0, None, NewFileId).status
                  = "permission_denied"
           /\ FileView_handle_put(DB, u, f, "b", None, FALSE, 0, None).status
                  = "permission_denied"
           /\ FileView_handle_delete(DB, u, f, None).status = "permission_denied"
           /\ ShareView_handle_delete(DB, u, s, None).status = "permission_denied"
           /\ DirectoryView_handle_put(DB, u, D, "b", None, None).status
                  = "permission_denied"
           /\ FileView_handle_post(DB, v, "b", D, 0, MaxDirId + 1, NewFileId).status
                  = "not_found"
           /\ FileView_handle_delete(DB, v, f, MaxDirId + 1).status = "not_found"
           /\ ShareView_handle_delete(DB, v, s, MaxDirId + 1).status = "not_found"
           /\ DirectoryView_handle_put(DB, v, D, "b", None, MaxDirId + 1).status
                  = "not_found"

\* C27: the callback for a deleted account removes the user, the directories
\* and files he owns, the shares he issued and those he received (and the
\* contact rows that name him); every directory and file of another owner,
\* every share between other users and every other user stay as they were,
\* and nothing is added.  A second call for the same id, and a call for an
\* id that no user has, change nothing.
C27_DeleteUserCascade ==
    \A u \in AllUsers :
        LET db == _delete_user(DB, u) IN
        /\ u \notin StorageUser => db = DB
        /\ u \notin db.users
        /\ \A d \in DOMAIN db.dirs : db.dirs[d].owner # u
        /\ \A f \in DOMAIN db.files : db.files[f].owner # u
        /\ \A s \in DOMAIN db.shares :
              db.shares[s].issuer # u /\ db.shares[s].subject # u
        /\ \A c \in db.contacts : c[1] # u /\ c[2] # u
        /\ db.users = StorageUser \ {u}
        /\ DOMAIN db.dirs = {d \in DOMAIN Directory : Directory[d].owner # u}
        /\ \A d \in DOMAIN db.dirs : db.dirs[d] = Directory[d]
        /\ DOMAIN db.files = {f \in DOMAIN File : File[f].owner # u}
        /\ \A f \in DOMAIN db.files : db.files[f] = File[f]
        /\ DOMAIN db.shares
              = {s \in DOMAIN Share : Share[s].issuer # u /\ Share[s].subject # u}
        /\ \A s \in DOMAIN db.shares : db.shares[s] = Share[s]
        /\ db.contacts = {c \in Contact : c[1] # u /\ c[2] # u}
        /\ _delete_user(db, u) = db

\* A user with a directory below his root and a file, who issued a share
\* and received one and has a contact, next to another user with a
\* directory of his own below his root: deleting the first leaves exactly the
\* other user and his two directories.
C27_Witness ==
    \E u, v \in StorageUser :
        /\ u # v
        /\ \E d \in DOMAIN Directory :
              Directory[d].owner = u /\ Directory[d].parent # None
        /\ \E f \in DOMAIN File : File[f].owner = u /\ File[f].data > 0
        /\ \E s, t \in DOMAIN Share : Share[s].issuer = u /\ Share[t].subject = u
        /\ <<u, v>> \in Contact
        /\ \E d \in DOMAIN Directory :
              Directory[d].owner = v /\ Directory[d].parent # None
        /\ LET db == _delete_user(DB, u) IN
              /\ db.users = {v}
              /\ Cardinality(DOMAIN db.dirs) = 2
              /\ db.files = <<>> /\ db.shares = <<>> /\ db.contacts = {}

\* The store in which the entity with the given id has the id new instead,
\* and every reference to it follows: a state that is the same but for the
\* fact that no entity has the id.
Renamed(db, kind, id, new) ==
    LET to(k) == IF k = id THEN new ELSE k
        from(k) == IF k = new THEN id ELSE k
        keys(f) == {to(k) : k \in DOMAIN f}
    IN CASE kind = "directory" ->
              [db EXCEPT
                 !.dirs = [k \in keys(@) |-> [@[from(k)] EXCEPT !.parent = to(@)]],
                 !.files = [k \in DOMAIN @ |-> [@[k] EXCEPT !.parent_directory = to(@)]],
                 !.shares = [k \in DOMAIN @ |-> [@[k] EXCEPT !.target_directory = to(@)]]]
         [] kind = "file" ->
              [db EXCEPT
                 !.files = [k \in keys(@) |-> @[from(k)]],
                 !.shares = [k \in DOMAIN @ |-> [@[k] EXCEPT !.target_file = to(@)]]]
         [] kind = "share" ->
              [db EXCEPT !.shares = [k \in keys(@) |-> @[from(k)]]]

\* Two answers to one request of u, a on the store as it is and b on the
\* store R: the same status, not_found if nf says so, and neither store
\* changed (but for the caller's own record and root on his first request).
Alike(u, R, a, b, nf) ==
    /\ a.status = b.status
    /\ nf => a.status = "not_found"
    /\ a.db = _verify_authenticated(DB, u, FirstRoot(u))
    /\ b.db = _verify_authenticated(R, u, FirstRoot(u))

\* C23: a caller who may not read a file, directory or share cannot tell it
\* from one that does not exist: every request that names its id, in any
\* place and with any other parameters, is answered as it is answered in the
\* state that differs only in that no entity has this id; the answer is
\* not_found whenever the request is well formed and the id is that of the
\* entity the request is on, of the parent of a creation or of the target of
\* a share.
C23_ExistenceNotLeaked ==
    \A u \in AllUsers :
        LET rr == FirstRoot(u) IN
        /\ \A f \in DOMAIN File :
              ~can_access(DB, "file", f, u, FALSE) =>
                LET R == Renamed(DB, "file", f, NewFileId + 1) IN
                /\ Alike(u, R, FileView_handle_get(DB, u, f, rr),
                               FileView_handle_get(R, u, f, rr), TRUE)
                /\ Alike(u, R, FileView_handle_delete(DB, u, f, rr),
                               FileView_handle_delete(R, u, f, rr), TRUE)
                /\ \A name \in Names \cup {NoName}, P \in DOMAIN Directory \cup {None},
                      wb \in PutBodies(Bodies) :
                      Alike(u, R,
                            FileView_handle_put(DB, u, f, name, P, wb[1], wb[2], rr),
                            FileView_handle_put(R, u, f, name, P, wb[1], wb[2], rr),
                            wb[1] \/ wb[2] = 0)
                /\ \A subject \in AllUsers, can_write \in BOOLEAN :
                      Alike(u, R,
                            ShareView_handle_post(DB, u, subject, "file", f, can_write,
                                                  rr, NewShareId),
                            ShareView_handle_post(R, u, subject, "file", f, can_write,
                                                  rr, NewShareId), TRUE)
        /\ \A d \in DOMAIN Directory :
              ~can_access(DB, "directory", d, u, FALSE) =>
                LET R == Renamed(DB, "directory", d, MaxDirId + 3) IN
                /\ Alike(u, R, DirectoryView_handle_get(DB, u, d, rr),
                               DirectoryView_handle_get(R, u, d, rr), TRUE)
                /\ \A cascade \in BOOLEAN :
                      Alike(u, R, DirectoryView_handle_delete(DB, u, d, cascade, rr),
                                  DirectoryView_handle_delete(R, u, d, cascade, rr), TRUE)
                /\ \A name \in Names \cup {NoName} :
                      /\ \A P \in DOMAIN Directory \cup {None} :
                            Alike(u, R, DirectoryView_handle_put(DB, u, d, name, P, rr),
                                        DirectoryView_handle_put(R, u, d, name, P, rr),
                                        TRUE)
                      /\ \A e \in DOMAIN Directory \ {d} :
                            Alike(u, R, DirectoryView_handle_put(DB, u, e, name, d, rr),
                                        DirectoryView_handle_put(R, u, e, name, d, rr),
                                        FALSE)
                      /\ \A f \in DOMAIN File, wb \in PutBodies(Bodies) :
                            Alike(u, R,
                                  FileView_handle_put(DB, u, f, name, d, wb[1], wb[2], rr),
                                  FileView_handle_put(R, u, f, name, d, wb[1], wb[2], rr),
                                  FALSE)
                      /\ \A body \in Bodies :
                            Alike(u, R,
                                  FileView_handle_post(DB, u, name, d, body, rr, NewFileId),
                                  FileView_handle_post(R, u, name, d, body, rr, NewFileId),
                                  name # NoName)
                      /\ Alike(u, R,
                               DirectoryView_handle_post(DB, u, name, d, rr, MaxDirId + 2),
                               DirectoryView_handle_post(R, u, name, d, rr, MaxDirId + 2),
                               name # NoName)
                /\ \A subject \in AllUsers, can_write \in BOOLEAN :
                      Alike(u, R,
                            ShareView_handle_post(DB, u, subject, "directory", d,
                                                  can_write, rr, NewShareId),
                            ShareView_handle_post(R, u, subject, "directory", d,
                                                  can_write, rr, NewShareId), TRUE)
        /\ \A s \in DOMAIN Share :
              ~can_access(DB, "share", s, u, FALSE) =>
                LET R == Renamed(DB, "share", s, NewShareId + 1) IN
                /\ Alike(u, R, ShareView_handle_get(DB, u, s, rr),
                               ShareView_handle_get(R, u, s, rr), TRUE)
                /\ Alike(u, R, ShareView_handle_delete(DB, u, s, rr),
                               ShareView_handle_delete(R, u, s, rr), TRUE)

\* A user with a root of his own who may read neither a directory below
\* another user's root nor the file in it, and is answered not_found when he
\* reads them or creates in the directory; and a share that a third user,
\* who is no party to it, asks for in vain.
C23_Witness ==
    \E u \in StorageUser, d \in DOMAIN Directory, f \in DOMAIN File,
       s \in DOMAIN Share, v \in AllUsers :
        /\ Directory[d].parent # None /\ File[f].parent_directory = d
        /\ ~can_access(DB, "directory", d, u, FALSE)
        /\ ~can_access(DB, "file", f, u, FALSE)
        /\ ~can_access(DB, "share", s, v, FALSE)
        /\ DirectoryView_handle_get(DB, u, d, None).status = "not_found"
        /\ FileView_handle_get(DB, u, f, None).status = "not_found"
        /\ DirectoryView_handle_post(DB, u, "b", d, None, MaxDirId + 2).status
               = "not_found"
        /\ ShareView_handle_get(DB, v, s, FirstRoot(v)).status = "not_found"

\* C24: under concurrent first requests every user has exactly one root and
\* every root belongs to a user on record; no request of them fails; and the
\* request that loses the race for the insert reads the record of the winner
\* and goes on with it.
C24_ConcurrentProvisioning ==
    /\ \A u \in StorageUser :
          Cardinality({d \in DOMAIN Directory :
                          Directory[d].owner = u /\ Directory[d].parent = None}) = 1
    /\ \A d \in DOMAIN Directory : Directory[d].owner \in StorageUser
    /\ \A p \in Procs :
          /\ proc[p].pc = "fallback" => proc[p].user_id \in StorageUser
          /\ (proc[p].pc = "done" /\ proc[p].op = "user_info") =>
                 /\ proc[p].status = "ok"
                 /\ proc[p].user_id \in StorageUser

\* Two requests for the same unknown user both found no record; one created
\* the user and the root, the other failed to insert and read the record.
C24_Witness ==
    \E p, q \in Procs :
        /\ proc[p].pc = "done" /\ proc[p].op = "user_info" /\ proc[p].how = "created"
        /\ proc[q].pc = "done" /\ proc[q].op = "user_info" /\ proc[q].how = "fallback"
        /\ proc[p].user_id = proc[q].user_id
        /\ proc[q].status = "ok"

\* C25: a request with a token that is signed, complete, of type access and
\* of the user of the request is accepted exactly when iat <= now <= exp,
\* both bounds included, and answered unauthorized otherwise.
C25_TokenTimeWindow ==
    \A u \in AllUsers, token \in Tokens \ {BadToken}, now \in Times :
        (token.user_id = u /\ token.token_type = ACCESS_TOKEN_TYPE) =>
            \A decoded \in jwt_decode(token, now) :
                LET r == UserInfoView_handle_get(DB, token, now, decoded, u, FirstRoot(u))
                IN IF token.iat <= now /\ now <= token.exp
                   THEN r.status = "ok"
                   ELSE r = Resp("unauthorized", DB)

\* C26: a request whose token is signed and complete but names another user
\* than the request does is answered unauthorized whatever the time and the
\* handler, and the store stays as it is: neither the user of the request
\* nor the user of the token gets a record or a root.
C26_TokenUserMismatch ==
    \A u \in AllUsers, token \in Tokens \ {BadToken}, now \in Times :
        token.user_id # u =>
            \A decoded \in jwt_decode(token, now) :
                /\ UserInfoView_handle_get(DB, token, now, decoded, u, FirstRoot(u))
                      = Resp("unauthorized", DB)
                /\ \A c \in AllUsers :
                      WithToken(token, u, now, decoded, DB,
                                ContactView_handle_post(DB, u, c, FirstRoot(u)))
                          = Resp("unauthorized", DB)
                /\ \A P \in DOMAIN Directory :
                      WithToken(token, u, now, decoded, DB,
                                DirectoryView_handle_post(DB, u, "a", P, FirstRoot(u),
                                                          MaxDirId + 2))
                          = Resp("unauthorized", DB)

\* One user on record and two that are not: a request for one of the two
\* under a token of the other, good in every other respect, is refused and
\* leaves both without a record, while the token of the right user would
\* have created the record and the root.
C26_Witness ==
    \E u, v \in AllUsers \ StorageUser :
        LET t == [user_id |-> v, iat |-> 0, exp |-> MaxTime,
                  token_type |-> ACCESS_TOKEN_TYPE]
            r == UserInfoView_handle_get(DB, t, 1, "ok", u, MaxDirId + 1)
            g == UserInfoView_handle_get(DB, [t EXCEPT !.user_id = u], 1, "ok", u,
                                         MaxDirId + 1)
        IN /\ u # v /\ StorageUser # {}
           /\ "ok" \in jwt_decode(t, 1)
           /\ r.status = "unauthorized"
           /\ r.db.users = StorageUser /\ r.db.dirs = Directory
           /\ g.status = "ok" /\ g.db.users = StorageUser \cup {u}

\* C28: being a contact is mutual.  When a user adds another user as a
\* contact, each of the two is a contact of the other afterwards, and the
\* same request again, from either of the two, changes nothing; a user who
\* adds himself is answered invalid_contact and nothing changes.
C28_ContactSymmetric ==
    /\ \A a, b \in StorageUser :
          b \in contacts_all(DB, a) <=> a \in contacts_all(DB, b)
    /\ \A u \in StorageUser :
          /\ ContactView_handle_post(DB, u, u, None) = Resp("invalid_contact", DB)
          /\ \A other \in StorageUser \ {u} :
                LET r == ContactView_handle_post(DB, u, other, None) IN
                /\ r.status = "ok"
                /\ other \in contacts_all(r.db, u)
                /\ u \in contacts_all(r.db, other)
                /\ ContactView_handle_post(r.db, u, other, None) = Resp("ok", r.db)
                /\ ContactView_handle_post(r.db, other, u, None) = Resp("ok", r.db)

\* C29: a request that lacks a required parameter, or has a body where none
\* is allowed, is answered malformed_request and leaves the store as it was:
\* no user, root, file, directory, share or contact is created, changed or
\* removed.
C29_MalformedNoSideEffect ==
    \A u \in AllUsers :
        /\ \A name \in Names \cup {NoName}, P \in DOMAIN Directory \cup {None} :
              (name = NoName \/ P = None) =>
                  /\ FileView_handle_post(DB, u, name, P, 0, FirstRoot(u), NewFileId)
                        = Resp("malformed_request", DB)
                  /\ DirectoryView_handle_post(DB, u, name, P, FirstRoot(u), MaxDirId + 2)
                        = Resp("malformed_request", DB)
        /\ \A f \in Named(FileIds, DOMAIN File), name \in Names \cup {NoName},
              P \in DOMAIN Directory \cup {None} :
              FileView_handle_put(DB, u, f, name, P, FALSE, 1, FirstRoot(u))
                  = Resp("malformed_request", DB)

\* The rows of the store db that the store as it is has: files, directories
\* and shares with their names, parents, owners and contents.
SameEntities(db) ==
    /\ db.files = File
    /\ db.shares = Share
    /\ DOMAIN Directory \subseteq DOMAIN db.dirs
    /\ \A d \in DOMAIN Directory : db.dirs[d] = Directory[d]

\* C30: when a request that renames, moves or overwrites a file, renames or
\* moves a directory, or deletes a directory with all that is below it, ends
\* with another status than ok, every file, directory and share is what it
\* was before the request.
C30_FailureLeavesNoPartialState ==
    \A u \in AllUsers :
        LET rr == FirstRoot(u) IN
        /\ \A f \in Named(FileIds, DOMAIN File), name \in Names \cup {NoName},
              P \in Named(DirIds, DOMAIN Directory) \cup {None},
              wb \in PutBodies(Bodies) :
              LET r == FileView_handle_put(DB, u, f, name, P, wb[1], wb[2], rr)
              IN r.status # "ok" => SameEntities(r.db)
        /\ \A d \in Named(DirIds, DOMAIN Directory) :
              /\ \A name \in Names \cup {NoName},
                    P \in Named(DirIds, DOMAIN Directory) \cup {None} :
                    LET r == DirectoryView_handle_put(DB, u, d, name, P, rr)
                    IN r.status # "ok" => SameEntities(r.db)
              /\ LET r == DirectoryView_handle_delete(DB, u, d, TRUE, rr)
                 IN r.status # "ok" => SameEntities(r.db)

\* A directory with a directory and a file in it, next to a directory of
\* the same name as the inner one: renaming and moving at once fails on the
\* name, moving the outer directory into the inner one fails on the cycle,
\* renaming the root fails, and a user without access fails to delete the
\* whole subtree; each time nothing is changed.
C30_Witness ==
    \E u \in StorageUser, a, b, c \in DOMAIN Directory, f \in DOMAIN File :
        /\ Directory[a].owner = u /\ Directory[a].parent # None
        /\ Directory[b].parent = a /\ File[f].parent_directory = a
        /\ c # a /\ Directory[c].parent = Directory[a].parent
        /\ LET r1 == DirectoryView_handle_put(DB, u, b, Directory[c].name,
                                              Directory[a].parent, None)
               r2 == DirectoryView_handle_put(DB, u, a, NoName, b, None)
               r3 == DirectoryView_handle_put(DB, u, Directory[a].parent, "b", None, None)
               r4 == FileView_handle_put(DB, u, f, Directory[c].name,
                                         Directory[a].parent, TRUE, 1, None)
           IN /\ r1.status = "duplicate_name" /\ SameEntities(r1.db)
              /\ r2.status = "cycle_detected" /\ SameEntities(r2.db)
              /\ r3.status = "internal_error" /\ SameEntities(r3.db)
              /\ r4.status = "duplicate_name" /\ SameEntities(r4.db)
        /\ \E v \in AllUsers \ {u} :
              LET r == DirectoryView_handle_delete(DB, v, a, TRUE, FirstRoot(v))
              IN r.status = "not_found" /\ SameEntities(r.db)

\* C33: whoever may write a directory, a file or a share may read it, so
\* _verify_can_access answers ok, and never not_found, to a user who may
\* write.
C33_WriteImpliesRead ==
    \A u \in AllUsers :
        \A e \in ({"directory"} \X DOMAIN Directory) \cup ({"file"} \X DOMAIN File)
                  \cup ({"share"} \X DOMAIN Share) :
            can_access(DB, e[1], e[2], u, TRUE) =>
                /\ can_access(DB, e[1], e[2], u, FALSE)
                /\ _verify_can_access(DB, e[1], e[2], u, FALSE) = "ok"
                /\ _verify_can_access(DB, e[1], e[2], u, TRUE) = "ok"

\* A write-capable share on a directory with a file in it, and a read-only
\* share: the subject of the first may write and read the directory and the
\* file without owning them, the subject of the second may read its target
\* and not write it, and the subject of a share may read and not write it.
C33_Witness ==
    \E s, t \in DOMAIN Share, f \in DOMAIN File :
        LET u == Share[s].subject
            D == Share[s].target_directory
        IN /\ Share[s].can_write /\ D # None /\ Directory[D].owner # u
           /\ File[f].parent_directory = D
           /\ can_access(DB, "directory", D, u, TRUE)
           /\ can_access(DB, "directory", D, u, FALSE)
           /\ can_access(DB, "file", f, u, TRUE) /\ can_access(DB, "file", f, u, FALSE)
           /\ ~Share[t].can_write /\ Share[t].target_file = f
           /\ can_access(DB, "file", f, Share[t].subject, FALSE)
           /\ can_access(DB, "share", t, Share[t].subject, FALSE)
           /\ ~can_access(DB, "share", t, Share[t].subject, TRUE)

\* C34: a request of the owner of a root directory that gives the root a
\* name and no parent directory is answered internal_error, whatever the
\* name, and changes nothing; every root still carries the name it was
\* created with.
C34_RootRenameFails ==
    \A d \in DOMAIN Directory :
        Directory[d].parent = None =>
            /\ Directory[d].name = "root"
            /\ \A name \in Names \cup {"root"} :
                  DirectoryView_handle_put(DB, Directory[d].owner, d, name, None, None)
                      = Resp("internal_error", DB)

\* A root with a directory in it, whose owner fails to rename the root
\* while he does rename the directory in it.
C34_Witness ==
    \E d, c \in DOMAIN Directory :
        LET u == Directory[d].owner IN
        /\ Directory[d].parent = None /\ Directory[c].parent = d
        /\ Directory[c].name = "a"
        /\ DirectoryView_handle_put(DB, u, d, "b", None, None).status = "internal_error"
        /\ DirectoryView_handle_put(DB, u, c, "b", None, None).status = "ok"

\* the directories that a cascading delete in progress is to remove
CascadeSubtree(p) == DescendantsOrSelf(proc[p].start.dirs, proc[p].directory)

\* While the loop runs: every directory on the list is still there, is on
\* the list once and belongs to the subtree, and lies behind (is taken after)
\* every directory below it that is on the list; no directory or file is
\* left without its parent directory; what is left is as it was, and all
\* that is not in the subtree is left; and a directory is taken from the
\* list at most twice.
C32_Running ==
    \A p \in Procs :
        proc[p].pc = "cascade" =>
            LET req == proc[p]
                db == req.db
                sub == CascadeSubtree(p)
            IN /\ Len(req.list) > 0
               /\ \A i \in DOMAIN req.list :
                     /\ req.list[i] \in (DOMAIN db.dirs) \cap sub
                     /\ \A j \in DOMAIN req.list :
                           /\ i # j => req.list[i] # req.list[j]
                           /\ i < j => req.list[i] \notin
                                           DescendantsOrSelf(db.dirs, req.list[j])
               /\ \A d \in DOMAIN db.dirs :
                     /\ db.dirs[d] = req.start.dirs[d]
                     /\ db.dirs[d].parent # None => db.dirs[d].parent \in DOMAIN db.dirs
               /\ \A f \in DOMAIN db.files :
                     /\ db.files[f] = req.start.files[f]
                     /\ db.files[f].parent_directory \in DOMAIN db.dirs
               /\ (DOMAIN req.start.dirs) \ sub \subseteq DOMAIN db.dirs
               /\ \A f \in DOMAIN req.start.files :
                     req.start.files[f].parent_directory \notin sub
                         => f \in DOMAIN db.files
               /\ req.turns < 2 * Cardinality(sub)

\* When the loop has ended: the directories of the subtree and the files in
\* them are gone, every other directory and file is as it was, and the store
\* is the one that the delete yields when it is served in one piece.
C32_Ended ==
    \A p \in Procs :
        (proc[p].pc = "done" /\ proc[p].op = "directory_delete"
                            /\ proc[p].status = "ok") =>
            LET req == proc[p]
                sub == CascadeSubtree(p)
            IN /\ DOMAIN Directory = (DOMAIN req.start.dirs) \ sub
               /\ \A d \in DOMAIN Directory : Directory[d] = req.start.dirs[d]
               /\ DOMAIN File = {f \in DOMAIN req.start.files :
                                    req.start.files[f].parent_directory \notin sub}
               /\ \A f \in DOMAIN File : File[f] = req.start.files[f]
               /\ DB = CascadeLoop(req.start, <<req.directory>>)
               /\ req.turns <= 2 * Cardinality(sub)

\* C32: the loop of the cascading delete comes to an end on every tree; it
\* removes every directory of the subtree and every file in it, each once;
\* it removes a directory only when no directory and no file is left in it,
\* a directory with directories in it being put back on the list behind
\* them; so at no moment is there a directory or file whose parent directory
\* is gone.
C32_CascadeLoopTerminates ==
    /\ [](C32_Running /\ C32_Ended)
    /\ \A p \in Procs : (proc[p].pc = "cascade") ~> (proc[p].pc = "done")

\* A delete that has ended after removing a directory with a file in it,
\* a directory below it and one below that, and that took the upper two from
\* the list twice.
C32_Witness ==
    \E p \in Procs :
        /\ proc[p].pc = "done" /\ proc[p].op = "directory_delete"
        /\ proc[p].status = "ok"
        /\ Cardinality(CascadeSubtree(p)) = 3
        /\ \E d \in CascadeSubtree(p) :
              proc[p].start.dirs[d].parent \in CascadeSubtree(p) \ {proc[p].directory}
        /\ \E f \in DOMAIN proc[p].start.files :
              proc[p].start.files[f].parent_directory = proc[p].directory
        /\ proc[p].turns = 5
        /\ DOMAIN Directory # {} /\ File = <<>>

\* C35: a rename of a directory (a new name and no new parent) leaves the
\* parent that is committed when it saves, and a move (a new parent and no
\* new name) leaves the committed name: neither puts back the value that it
\* read before its transaction began.
C35_NoLostUpdate ==
    [][\A p \in Procs :
          (DirectoryPut_save(p) /\ proc[p].id \in DOMAIN Directory) =>
              /\ (proc[p].parent_directory_id = None /\ proc[p].directory_name # NoName) =>
                    Directory'[proc[p].id].parent = Directory[proc[p].id].parent
              /\ (proc[p].directory_name = NoName /\ proc[p].parent_directory_id # None) =>
                    Directory'[proc[p].id].name = Directory[proc[p].id].name]_vars

\* C31: two creations of directories that have both been answered ok have
\* made two directories: their ids differ, and each directory still is as
\* its creation made it.
C31_IdAllocationRaceSafe ==
    \A p \in Procs : \A q \in Procs \ {p} :
        (/\ proc[p].pc = "done" /\ proc[p].op = "directory_post" /\ proc[p].status = "ok"
         /\ proc[q].pc = "done" /\ proc[q].op = "directory_post" /\ proc[q].status = "ok")
            => /\ proc[p].id # proc[q].id
               /\ proc[p].id \in DOMAIN Directory
               /\ Directory[proc[p].id] = [name |-> proc[p].name, owner |-> proc[p].owner,
                                           parent |-> proc[p].parent]

\* C5: two concurrent uploads of one user never both commit when each fits
\* under the ceiling on top of the usage that both of them read and the two
\* together do not.
C5_NoConcurrentOvercommit ==
    \A p, q \in Procs :
        ( /\ p # q
          /\ proc[p].pc = "done" /\ proc[p].op = "file_post" /\ proc[p].status = "ok"
          /\ proc[q].pc = "done" /\ proc[q].op = "file_post" /\ proc[q].status = "ok"
          /\ proc[p].user_id = proc[q].user_id
          /\ proc[p].seen = proc[q].seen )
        => proc[p].seen + proc[p].body + proc[q].body <= LIMIT_USER_TOTAL_SIZE

\* C8: under concurrent moves the directory graph never contains a cycle.
C8_NoCycleUnderConcurrentMoves ==
    \A d \in DOMAIN Directory :
        Directory[d].parent # None =>
            d \notin AncestorsOrSelf(Directory, Directory[d].parent)

\* C10: under concurrent creations, renames and moves no two children of a
\* directory end up with the same name.
C10_NoDuplicateUnderConcurrency ==
    \A P \in DOMAIN Directory : \A x, y \in Children(P) :
        x # y => NameOf(x) # NameOf(y)
====
